---- MODULE Spec2Model ----
(***************************************************************************)
(* State-machine model of the resilient command-execution pipeline of      *)
(* pingushell-ws-client.                                                   *)
(*                                                                         *)
(*   Part I   MemoryManager  (src/src/services/memoryManager.ts)           *)
(*            bounded TTL + LRU cache: set / get / delete / clear and the  *)
(*            periodic sweep (performCleanup).                             *)
(*   Part II  CommandQueueManager  (src/unnamed/part_002, lines 505-1157)  *)
(*            priority queue, aging, batching, dispatch, callbacks.        *)
(*   Part III ConnectionPoolManager  (memoryManager.ts, lines 590-1043)   *)
(*            connection creation, selection, socket events, health check. *)
(*   Part IV  WebSocketClient  (src/unnamed/part_002, lines 5-503)         *)
(*            connect / reconnect, health check, inbound messages.         *)
(*   Part V   PerformanceIntegrationManager                                *)
(*            (src/src/services/performanceIntegration.ts): health score.  *)
(*                                                                         *)
(* Time is the value of Date.now(), in abstract units; byte sizes and the  *)
(* configuration values are scaled down, the code's comparisons are kept.  *)
(***************************************************************************)
EXTENDS Integers, Sequences, FiniteSets, TLC

\* ------------------------------------------------------------------------
\* Bounds of the model
\* ------------------------------------------------------------------------
\* Date.now() ranges over 0..MaxTime
MaxTime == 2
\* at most MaxRequests get() calls are counted in metrics.hits + metrics.misses
MaxRequests == 1
\* at most MaxEvictions evictions are counted in metrics.evictions
MaxEvictions == 1

\* ------------------------------------------------------------------------
\* Part I - MemoryManager
\* ------------------------------------------------------------------------
\* cache keys
Keys == {"k1", "k2", "k3"}

\* values stored: a boolean, a number, and a string of 9 characters
Values == { [kind |-> "boolean", len |-> 0],
            [kind |-> "number",  len |-> 0],
            [kind |-> "string",  len |-> 9] }

\* config.maxSize, scaled from 50 MB
maxSize == 8
\* config.defaultTTL, scaled from 300000 ms
defaultTTL == 1
\* ttl arguments of set(): 0 stands for an omitted ttl
TTLArgs == {0, 1}
\* config.maxItems and config.enableLRU values the constructor is given
MaxItemsChoices == {1, 2}

VARIABLES
    config,       \* MemoryManager.config: [maxItems, enableLRU]
    cache,        \* MemoryManager.cache: the Map, as the sequence of its items in Map order
    accessOrder,  \* MemoryManager.accessOrder: keys, least recently used first
    currentSize,  \* MemoryManager.currentSize
    metrics,      \* MemoryManager.metrics: [hits, misses, evictions]
    now,          \* Date.now()
    lastCall      \* the call just made and what it returned

cacheVars == <<config, cache, accessOrder, currentSize, metrics>>

\* a variant that takes every value for a boolean
estimateSizeFlat(value) == 4

\* estimateSize(value): strings 2 bytes per character, numbers 8, booleans 4
estimateSize(value) ==
    CASE value.kind = "string"  -> value.len * 2
      [] value.kind = "number"  -> 8
      [] value.kind = "boolean" -> 4
      [] OTHER                  -> 24

\* Map.has(key) on a sequence of items
HasKey(c, key) == \E i \in 1..Len(c) : c[i].key = key

\* Map.get(key) on a sequence of items (key present)
ItemOf(c, key) == c[CHOOSE i \in 1..Len(c) : c[i].key = key]

\* Map.delete(key) on a sequence of items
MapDelete(c, key) == SelectSeq(c, LAMBDA it : it.key # key)

\* Map.set(key, item): a present key keeps its position, a new key goes last
MapSet(c, item) ==
    IF HasKey(c, item.key)
    THEN [i \in 1..Len(c) |-> IF c[i].key = item.key THEN item ELSE c[i]]
    ELSE Append(c, item)

\* removeFromAccessOrder(key)
removeFromAccessOrder(order, key) == SelectSeq(order, LAMBDA k : k # key)

\* a variant that appends the key without removing its old entry
updateAccessOrderAppendOnly(order, key, enableLRU) ==
    IF enableLRU THEN Append(order, key) ELSE order

\* updateAccessOrder(key): no-op unless enableLRU
updateAccessOrder(order, key, enableLRU) ==
    IF ~enableLRU THEN order
    ELSE Append(removeFromAccessOrder(order, key), key)

\* the part of the cache state that set / delete / eviction work on:
\* st = [cache, accessOrder, currentSize, evictions]

\* delete(key)
DeleteItem(st, key) ==
    IF ~HasKey(st.cache, key) THEN st
    ELSE [st EXCEPT !.cache = MapDelete(@, key),
                    !.currentSize = @ - ItemOf(st.cache, key).size,
                    !.accessOrder = removeFromAccessOrder(@, key)]

\* a variant that evicts the most recently used key
evictMostRecentlyUsed(st) ==
    IF Len(st.accessOrder) = 0
    THEN IF Len(st.cache) > 0
         THEN [DeleteItem(st, st.cache[1].key) EXCEPT !.evictions = @ + 1]
         ELSE st
    ELSE LET mruKey == st.accessOrder[Len(st.accessOrder)] IN
         [DeleteItem(st, mruKey) EXCEPT !.evictions = @ + 1]

\* evictLeastRecentlyUsed()
evictLeastRecentlyUsed(st) ==
    IF Len(st.accessOrder) = 0
    THEN IF Len(st.cache) > 0
         THEN [DeleteItem(st, st.cache[1].key) EXCEPT !.evictions = @ + 1]
         ELSE st
    ELSE LET lruKey == st.accessOrder[1] IN
         [DeleteItem(st, lruKey) EXCEPT !.evictions = @ + 1]

\* the while loop of set(): evict until both caps admit the new item
RECURSIVE EvictLoop(_, _, _)
EvictLoop(st, estimatedSize, maxItems) ==
    IF (st.currentSize + estimatedSize > maxSize \/ Len(st.cache) >= maxItems)
       /\ Len(st.cache) > 0
    THEN EvictLoop(evictLeastRecentlyUsed(st), estimatedSize, maxItems)
    ELSE st

\* set(key, value, ttl) from state st at time t; the result state, or st
\* itself when the item is rejected
SetItem(st, key, value, ttl, t, cfg) ==
    LET itemTTL == IF ttl = 0 THEN defaultTTL ELSE ttl
        estimatedSize == estimateSize(value)
        st0 == IF HasKey(st.cache, key)
               THEN [st EXCEPT !.currentSize = @ - ItemOf(st.cache, key).size,
                               !.accessOrder = removeFromAccessOrder(@, key)]
               ELSE st
        st1 == EvictLoop(st0, estimatedSize, cfg.maxItems)
        cacheItem == [key |-> key, value |-> value, ttl |-> itemTTL,
                      createdAt |-> t, lastAccessed |-> t, accessCount |-> 0,
                      size |-> estimatedSize]
    IN  IF estimatedSize > maxSize THEN st
        ELSE [st1 EXCEPT !.cache = MapSet(@, cacheItem),
                         !.currentSize = @ + estimatedSize,
                         !.accessOrder = updateAccessOrder(@, key, cfg.enableLRU)]

\* the state record of the current state
CacheState == [cache |-> cache, accessOrder |-> accessOrder,
               currentSize |-> currentSize, evictions |-> metrics.evictions]

\* a variant of the TTL check that never fires
ExpiredNever(it, t) == FALSE

\* the TTL check of get() and performCleanup(): now > createdAt + ttl
Expired(it, t) == t > it.createdAt + it.ttl

\* a call and what it did: the operation, its key argument, the value it
\* returned, the message it logged and the number of items it evicted
Call(op, key, ret, log, evicted) ==
    [op |-> op, key |-> key, ret |-> ret, log |-> log, evicted |-> evicted]

NoRet == [kind |-> "none"]
Absent == [kind |-> "absent"]
BoolRet(b) == [kind |-> "bool", b |-> b]
ValueRet(v) == [kind |-> "value", value |-> v]

CacheInit ==
    /\ config \in [maxItems : MaxItemsChoices, enableLRU : BOOLEAN]
    /\ cache = <<>>
    /\ accessOrder = <<>>
    /\ currentSize = 0
    /\ metrics = [hits |-> 0, misses |-> 0, evictions |-> 0]

\* public set(key, value, ttl?)
Set(key, value, ttl) ==
    LET st == SetItem(CacheState, key, value, ttl, now, config) IN
    /\ st.evictions <= MaxEvictions
    /\ cache' = st.cache
    /\ accessOrder' = st.accessOrder
    /\ currentSize' = st.currentSize
    /\ metrics' = [metrics EXCEPT !.evictions = st.evictions]
    /\ lastCall' = IF estimateSize(value) > maxSize
                   THEN Call("set", key, BoolRet(FALSE),
                             "Item too large for cache", 0)
                   ELSE Call("set", key, BoolRet(TRUE), "Cache item set",
                             st.evictions - metrics.evictions)
    /\ UNCHANGED <<config, now>>

\* public get(key)
Get(key) ==
    /\ metrics.hits + metrics.misses < MaxRequests
    /\ IF ~HasKey(cache, key)
       THEN /\ metrics' = [metrics EXCEPT !.misses = @ + 1]
            /\ lastCall' = Call("get", key, Absent, "", 0)
            /\ UNCHANGED <<cache, accessOrder, currentSize>>
       ELSE LET item == ItemOf(cache, key) IN
            IF Expired(item, now)
            THEN LET st == DeleteItem(CacheState, key) IN
                 /\ cache' = st.cache
                 /\ accessOrder' = st.accessOrder
                 /\ currentSize' = st.currentSize
                 /\ metrics' = [metrics EXCEPT !.misses = @ + 1]
                 /\ lastCall' = Call("get", key, Absent, "Cache item expired", 0)
            ELSE /\ metrics' = [metrics EXCEPT !.hits = @ + 1]
                 /\ cache' = MapSet(cache, [item EXCEPT !.lastAccessed = now,
                                                        !.accessCount = @ + 1])
                 /\ accessOrder' = updateAccessOrder(accessOrder, key,
                                                     config.enableLRU)
                 /\ lastCall' = Call("get", key, ValueRet(item.value),
                                     "Cache hit", 0)
                 /\ UNCHANGED currentSize
    /\ UNCHANGED <<config, now>>

\* public delete(key)
Delete(key) ==
    LET st == DeleteItem(CacheState, key) IN
    /\ cache' = st.cache
    /\ accessOrder' = st.accessOrder
    /\ currentSize' = st.currentSize
    /\ lastCall' = Call("delete", key, BoolRet(HasKey(cache, key)), "", 0)
    /\ UNCHANGED <<config, metrics, now>>

\* public clear()
Clear ==
    /\ cache' = <<>>
    /\ accessOrder' = <<>>
    /\ currentSize' = 0
    /\ lastCall' = Call("clear", "", NoRet, "Cache cleared", 0)
    /\ UNCHANGED <<config, metrics, now>>

\* the first loop of performCleanup(): delete every expired item
RECURSIVE DeleteExpired(_, _, _)
DeleteExpired(st, items, t) ==
    IF items = <<>> THEN st
    ELSE DeleteExpired(IF Expired(Head(items), t)
                       THEN DeleteItem(st, Head(items).key) ELSE st,
                       Tail(items), t)

\* the sort key of performEmergencyCleanup():
\* accessCount + (now - lastAccessed) / 1000, times 1000
EmergencyScore(it, t) == it.accessCount * 1000 + (t - it.lastAccessed)

\* Array.sort with the score comparator (stable): insertion sort
RECURSIVE InsertByScore(_, _, _)
InsertByScore(sorted, it, t) ==
    IF sorted = <<>> THEN <<it>>
    ELSE IF EmergencyScore(it, t) < EmergencyScore(Head(sorted), t)
         THEN <<it>> \o sorted
         ELSE <<Head(sorted)>> \o InsertByScore(Tail(sorted), it, t)

RECURSIVE SortByScore(_, _)
SortByScore(items, t) ==
    IF items = <<>> THEN <<>>
    ELSE InsertByScore(SortByScore(SubSeq(items, 1, Len(items) - 1), t),
                       items[Len(items)], t)

RECURSIVE DeleteFirst(_, _, _)
DeleteFirst(st, items, n) ==
    IF n = 0 \/ items = <<>> THEN st
    ELSE DeleteFirst(DeleteItem(st, Head(items).key), Tail(items), n - 1)

\* performEmergencyCleanup(): delete the floor(size * 0.2) lowest-scored items
performEmergencyCleanup(st, t) ==
    LET itemsToRemove == Len(st.cache) \div 5
    IN  DeleteFirst(st, SortByScore(st.cache, t), itemsToRemove)

\* the cleanup timer: performCleanup(); heapPressure is heapUsagePercent > 80
PerformCleanup(heapPressure) ==
    LET st0 == DeleteExpired(CacheState, cache, now)
        st  == IF heapPressure THEN performEmergencyCleanup(st0, now) ELSE st0
    IN  /\ cache' = st.cache
        /\ accessOrder' = st.accessOrder
        /\ currentSize' = st.currentSize
        /\ lastCall' = Call("performCleanup", "", NoRet, "Cleanup completed", 0)
        /\ UNCHANGED <<config, metrics, now>>

\* getStats(): the counters it reports
getStats ==
    [cache_size |-> Len(cache), memory_used |-> currentSize,
     memory_limit |-> maxSize, total_hits |-> metrics.hits,
     total_misses |-> metrics.misses, total_evictions |-> metrics.evictions]

\* Date.now() advances
Tick ==
    /\ now < MaxTime
    /\ now' = now + 1
    /\ lastCall' = Call("tick", "", NoRet, "", 0)

\* ------------------------------------------------------------------------
\* Part II - CommandQueueManager
\* ------------------------------------------------------------------------
\* enum CommandPriority
LOW == 1
NORMAL == 2
HIGH == 3
CRITICAL == 4

\* config.maxQueueSize, scaled from 1000
maxQueueSize == 3
\* config.maxConcurrentCommands, scaled from 5
maxConcurrentCommands == 2
\* config.batchSize, scaled from 3
batchSize == 2
\* config.priorityBoostThreshold, scaled from 30000 ms
priorityBoostThreshold == 1
\* the default of options.maxAttempts
defaultMaxAttempts == 3

\* command ids and batch ids in use at one time
MaxCommands == 3
MaxBatches == 1
\* metrics.totalCommands is counted up to MaxTotalCommands; that value stands
\* for MaxTotalCommands or more
MaxTotalCommands == 4

CmdIds == 1..MaxCommands

\* options.priority of addCommand: 0 stands for an omitted priority
PriorityArgs == {0, CRITICAL}
\* options.maxAttempts of addCommand: 0 stands for an omitted maxAttempts
MaxAttemptsArgs == {0}
\* what executeCommand resolves with (it never rejects): success = true or
\* success = false
Outcomes == {"fulfilled_success", "fulfilled_failure"}

VARIABLES
    queue,            \* CommandQueueManager.queue
    processingQueue,  \* CommandQueueManager.processingQueue
    batches,          \* the CommandBatch objects, by id; batch.inMap: it is in
                      \* CommandQueueManager.batches; batch.results: what
                      \* Promise.allSettled has collected while it waits
    timers,           \* [processingInterval, batchInterval]: armed or null
    totalCommands,    \* metrics.totalCommands
    callbacks         \* the command callbacks the latest step invoked, in order

queueVars == <<queue, processingQueue, batches, timers, totalCommands,
               callbacks>>

\* the batch objects that can exist at one time
BatchIds == DOMAIN batches

NoBatch == [status |-> "none"]

\* the elements of a sequence
Range(seq) == {seq[i] : i \in 1..Len(seq)}

IdsOf(cmds) == {cmds[i].id : i \in 1..Len(cmds)}

LiveBatchIds == {b \in BatchIds : batches[b] # NoBatch}

\* the batches in the Map CommandQueueManager.batches
MapBatchIds == {b \in LiveBatchIds : batches[b].inMap}

\* the command ids some object still refers to
LiveIds ==
    IdsOf(queue) \cup UNION {IdsOf(batches[b].commands) : b \in LiveBatchIds}

\* generateCommandId(): an id no live command has
FreshCmdId == CHOOSE id \in CmdIds \ LiveIds :
                  \A other \in CmdIds \ LiveIds : id <= other

\* the id createBatch() gives a batch: one no live batch has
FreshBatchId == CHOOSE b \in BatchIds \ LiveBatchIds :
                    \A other \in BatchIds \ LiveBatchIds : b <= other

\* a variant that appends, whatever the priority
insertAtBack(q, command) == Append(q, command)

\* insertByPriority(command): before the first queued command whose
\* priority is <= the new one's, at the end when there is none
insertByPriority(q, command) ==
    LET hits == {i \in 1..Len(q) : q[i].priority <= command.priority}
        insertIndex == IF hits = {} THEN Len(q) + 1
                       ELSE CHOOSE i \in hits : \A j \in hits : i <= j
    IN  SubSeq(q, 1, insertIndex - 1) \o <<command>>
            \o SubSeq(q, insertIndex, Len(q))

\* the comparator of reorderQueue(): a goes before b
QueueBefore(a, b) ==
    IF a.priority # b.priority THEN a.priority > b.priority
    ELSE a.addedAt < b.addedAt

\* Array.sort with that comparator (stable): insertion sort
RECURSIVE InsertSorted(_, _)
InsertSorted(sorted, c) ==
    IF sorted = <<>> THEN <<c>>
    ELSE IF QueueBefore(c, Head(sorted))
         THEN <<c>> \o sorted
         ELSE <<Head(sorted)>> \o InsertSorted(Tail(sorted), c)

RECURSIVE reorderQueue(_)
reorderQueue(q) ==
    IF q = <<>> THEN <<>>
    ELSE InsertSorted(reorderQueue(SubSeq(q, 1, Len(q) - 1)), q[Len(q)])

\* the condition under which performPriorityBoost() raises a command
Boosted(c, t) ==
    t - c.addedAt > priorityBoostThreshold /\ c.priority < CRITICAL

\* the priority performPriorityBoost() leaves a command with
BoostPriority(c, t) ==
    IF Boosted(c, t)
    THEN (IF c.priority + 1 < CRITICAL THEN c.priority + 1 ELSE CRITICAL)
    ELSE c.priority

\* performPriorityBoost(): the queue afterwards
performPriorityBoost(q, t) ==
    LET raised == [i \in 1..Len(q) |->
                      [q[i] EXCEPT !.priority = BoostPriority(q[i], t)]]
        boostedCount == Cardinality({i \in 1..Len(q) :
                                        raised[i].priority # q[i].priority})
    IN  IF boostedCount > 0 THEN reorderQueue(raised) ELSE raised

\* Math.max over the priorities of a batch's commands
MaxPriority(cmds) ==
    CHOOSE p \in {cmds[i].priority : i \in 1..Len(cmds)} :
        \A i \in 1..Len(cmds) : cmds[i].priority <= p

\* createBatch() on queue q at time t: the batch object (q is not empty)
createBatch(q, t) ==
    LET n == IF batchSize < Len(q) THEN batchSize ELSE Len(q)
        batchCommands == SubSeq(q, 1, n)
    IN  [commands |-> batchCommands,
         priority |-> MaxPriority(batchCommands),
         createdAt |-> t,
         status |-> "pending",
         results |-> <<>>,
         inMap |-> TRUE]

\* what createBatch() leaves in the queue
AfterBatch(q) ==
    SubSeq(q, (IF batchSize < Len(q) THEN batchSize ELSE Len(q)) + 1, Len(q))

PendingBatchIds == {b \in MapBatchIds : batches[b].status = "pending"}

QueueInit ==
    /\ queue = <<>>
    /\ processingQueue = {}
    /\ batches = [b \in 1..MaxBatches |-> NoBatch]
    /\ timers = [processingInterval |-> TRUE, batchInterval |-> TRUE]
    /\ totalCommands = 0
    /\ callbacks = <<>>

\* a step that is no public call
NoCall == Call("none", "", NoRet, "", 0)

\* one invocation of a command's callback
Callback(id, name, arg) == [id |-> id, name |-> name, arg |-> arg]

ErrorRet(message) == [kind |-> "error", message |-> message]
IdRet(id) == [kind |-> "id", id |-> id]

\* a variant that counts the rejected command
RejectCommandCounted ==
    /\ lastCall' = Call("addCommand", "",
                        ErrorRet("Queue is full, cannot add more commands"),
                        "Queue is full, cannot add more commands", 0)
    /\ callbacks' = <<>>
    /\ totalCommands' = IF totalCommands < MaxTotalCommands
                        THEN totalCommands + 1 ELSE totalCommands
    /\ UNCHANGED <<queue, processingQueue, batches, timers, now>>

\* addCommand when the queue is full: throw new Error(error)
RejectCommand ==
    /\ lastCall' = Call("addCommand", "",
                        ErrorRet("Queue is full, cannot add more commands"),
                        "Queue is full, cannot add more commands", 0)
    /\ callbacks' = <<>>
    /\ UNCHANGED <<queue, processingQueue, batches, timers, totalCommands,
                   now>>

\* public addCommand(command, options)
AddCommand(priorityArg, maxAttemptsArg) ==
    IF Len(queue) >= maxQueueSize
    THEN RejectCommand
    ELSE /\ CmdIds \ LiveIds # {}
         /\ LET commandId == FreshCmdId
                queuedCommand ==
                    [id |-> commandId,
                     priority |-> IF priorityArg = 0 THEN NORMAL
                                  ELSE priorityArg,
                     addedAt |-> now,
                     attempts |-> 0,
                     maxAttempts |-> IF maxAttemptsArg = 0
                                     THEN defaultMaxAttempts
                                     ELSE maxAttemptsArg]
            IN  /\ queue' = insertByPriority(queue, queuedCommand)
                /\ lastCall' = Call("addCommand", "", IdRet(commandId),
                                    "Command added to queue", 0)
         /\ totalCommands' = IF totalCommands < MaxTotalCommands
                             THEN totalCommands + 1 ELSE totalCommands
         /\ callbacks' = <<>>
         /\ UNCHANGED <<processingQueue, batches, timers, now>>

\* a variant that forms a batch whether or not one is pending
BatchTimerAlways ==
    /\ timers.batchInterval
    /\ LET boosted == performPriorityBoost(queue, now) IN
       IF Len(boosted) > 0
       THEN /\ BatchIds \ LiveBatchIds # {}
            /\ batches' = [batches EXCEPT
                              ![FreshBatchId] = createBatch(boosted, now)]
            /\ queue' = AfterBatch(boosted)
       ELSE /\ queue' = boosted
            /\ UNCHANGED batches
    /\ lastCall' = NoCall
    /\ callbacks' = <<>>
    /\ UNCHANGED <<processingQueue, timers, totalCommands, now>>

\* the batchInterval callback of startBatchProcessor()
BatchTimer ==
    /\ timers.batchInterval
    /\ LET boosted == performPriorityBoost(queue, now) IN
       IF PendingBatchIds = {} /\ Len(boosted) > 0
       THEN /\ BatchIds \ LiveBatchIds # {}
            /\ batches' = [batches EXCEPT
                              ![FreshBatchId] = createBatch(boosted, now)]
            /\ queue' = AfterBatch(boosted)
       ELSE /\ queue' = boosted
            /\ UNCHANGED batches
    /\ lastCall' = NoCall
    /\ callbacks' = <<>>
    /\ UNCHANGED <<processingQueue, timers, totalCommands, now>>

\* the sort of processNextBatch(): batch a goes before batch b
BatchBefore(a, b) ==
    IF batches[a].priority # batches[b].priority
    THEN batches[a].priority > batches[b].priority
    ELSE batches[a].createdAt <= batches[b].createdAt

\* what executeQueuedCommand(command) invokes before its await:
\* onProgress({status: "executing", attempt})
RECURSIVE ProgressCallbacks(_, _)
ProgressCallbacks(cmds, i) ==
    IF i > Len(cmds) THEN <<>>
    ELSE <<Callback(cmds[i].id, "onProgress", "executing")>>
             \o ProgressCallbacks(cmds, i + 1)

\* results.forEach of processBatch(): handleCommandSuccess for a fulfilled
\* execution (whatever result.success is), handleCommandError with the
\* rejection's reason for a rejected one
RECURSIVE HandleResults(_, _, _)
HandleResults(cmds, results, i) ==
    IF i > Len(results) THEN <<>>
    ELSE <<IF results[i] = "rejected"
           THEN Callback(cmds[i].id, "onError", "onProgress threw")
           ELSE Callback(cmds[i].id, "onSuccess", results[i])>>
             \o HandleResults(cmds, results, i + 1)

\* the processingInterval callback: processNextBatch(), and processBatch() up
\* to the point where it waits for an execution.  throwing is the set of
\* commands whose onProgress callback throws: executeQueuedCommand rejects
\* for those at once.  When every execution has rejected (or the batch is
\* empty) Promise.allSettled resolves without waiting and processBatch()
\* runs to its end.
ProcessingTimer(throwing) ==
    /\ timers.processingInterval
    /\ IF Cardinality(processingQueue) >= maxConcurrentCommands
          \/ PendingBatchIds = {}
       THEN /\ throwing = {}
            /\ callbacks' = <<>>
            /\ UNCHANGED <<processingQueue, batches>>
       ELSE \E b \in PendingBatchIds :
              /\ \A other \in PendingBatchIds : BatchBefore(b, other)
              /\ LET batch == batches[b]
                     results == [i \in 1..Len(batch.commands) |->
                                    IF batch.commands[i].id \in throwing
                                    THEN "rejected" ELSE "running"]
                     allSettled == \A i \in 1..Len(results) :
                                       results[i] # "running"
                 IN  /\ throwing \subseteq IdsOf(batch.commands)
                     /\ batches' = [batches EXCEPT
                            ![b].status = IF allSettled THEN "completed"
                                          ELSE "processing",
                            ![b].results = IF allSettled THEN <<>>
                                           ELSE results]
                     /\ processingQueue' = processingQueue
                            \cup (IdsOf(batch.commands) \ throwing)
                     /\ callbacks' =
                            ProgressCallbacks(batch.commands, 1)
                            \o (IF allSettled
                                THEN HandleResults(batch.commands, results, 1)
                                ELSE <<>>)
    /\ lastCall' = NoCall
    /\ UNCHANGED <<queue, timers, totalCommands, now>>

\* executeCommand resolves for the i-th command of batch b; when it was the
\* last one running, processBatch() resumes after Promise.allSettled
Settle(b, i, outcome) ==
    /\ batches[b] # NoBatch
    /\ batches[b].status = "processing"
    /\ i \in 1..Len(batches[b].commands)
    /\ batches[b].results[i] = "running"
    /\ LET batch == batches[b]
           results == [batch.results EXCEPT ![i] = outcome]
           allSettled == \A j \in 1..Len(results) : results[j] # "running"
       IN  /\ processingQueue' = processingQueue \ {batch.commands[i].id}
           /\ batches' = [batches EXCEPT
                  ![b].results = IF allSettled THEN <<>> ELSE results,
                  ![b].status = IF allSettled THEN "completed"
                                ELSE "processing"]
           /\ callbacks' = IF allSettled
                           THEN HandleResults(batch.commands, results, 1)
                           ELSE <<>>
    /\ lastCall' = NoCall
    /\ UNCHANGED <<queue, timers, totalCommands, now>>

\* the 30 s timeout armed at the end of processBatch(): batches.delete(id)
BatchGC(b) ==
    /\ batches[b] # NoBatch
    /\ batches[b].status = "completed"
    /\ batches' = [batches EXCEPT ![b] = NoBatch]
    /\ callbacks' = <<>>
    /\ lastCall' = NoCall
    /\ UNCHANGED <<queue, processingQueue, timers, totalCommands, now>>

\* a variant that also cancels a command of a batch that is being processed
CancelFromAnyBatch(commandId) ==
    /\ IF commandId \in LiveIds
       THEN /\ queue' = SelectSeq(queue, LAMBDA c : c.id # commandId)
            /\ batches' = [b \in BatchIds |->
                   IF batches[b] = NoBatch THEN NoBatch
                   ELSE [batches[b] EXCEPT !.commands =
                            SelectSeq(@, LAMBDA c : c.id # commandId)]]
            /\ callbacks' = <<Callback(commandId, "onError",
                                       "Command cancelled")>>
            /\ lastCall' = Call("cancelCommand", ToString(commandId), BoolRet(TRUE),
                                "Command cancelled", 0)
       ELSE /\ lastCall' = Call("cancelCommand", ToString(commandId),
                                BoolRet(FALSE), "", 0)
            /\ callbacks' = <<>>
            /\ UNCHANGED <<queue, batches>>
    /\ UNCHANGED <<processingQueue, timers, totalCommands, now>>

\* public cancelCommand(commandId)
CancelCommand(commandId) ==
    /\ IF commandId \in IdsOf(queue)
       THEN /\ queue' = SelectSeq(queue, LAMBDA c : c.id # commandId)
            /\ callbacks' = <<Callback(commandId, "onError",
                                       "Command cancelled")>>
            /\ lastCall' = Call("cancelCommand", ToString(commandId), BoolRet(TRUE),
                                "Command cancelled", 0)
            /\ UNCHANGED batches
       ELSE IF \E b \in PendingBatchIds :
                    commandId \in IdsOf(batches[b].commands)
            THEN LET b == CHOOSE b \in PendingBatchIds :
                              commandId \in IdsOf(batches[b].commands)
                 IN  /\ batches' = [batches EXCEPT
                           ![b].commands =
                               SelectSeq(@, LAMBDA c : c.id # commandId)]
                     /\ callbacks' = <<Callback(commandId, "onError",
                                                "Command cancelled")>>
                     /\ lastCall' = Call("cancelCommand", ToString(commandId),
                                         BoolRet(TRUE),
                                         "Command cancelled from batch", 0)
                     /\ UNCHANGED queue
            ELSE /\ lastCall' = Call("cancelCommand", ToString(commandId),
                                     BoolRet(FALSE), "", 0)
                 /\ callbacks' = <<>>
                 /\ UNCHANGED <<queue, batches>>
    /\ UNCHANGED <<processingQueue, timers, totalCommands, now>>

\* public clearQueue()
ClearQueue ==
    /\ queue' = <<>>
    /\ lastCall' = Call("clearQueue", "", NoRet, "Queue cleared", 0)
    /\ callbacks' = <<>>
    /\ UNCHANGED <<processingQueue, batches, timers, totalCommands, now>>

\* onError(new Error("Queue shutdown")) for every queued command
RECURSIVE ShutdownCallbacks(_)
ShutdownCallbacks(q) ==
    IF q = <<>> THEN <<>>
    ELSE <<Callback(Head(q).id, "onError", "Queue shutdown")>>
             \o ShutdownCallbacks(Tail(q))

\* a variant that notifies the queued commands and leaves them queued
QueueCleanupKeepsQueue ==
    /\ timers' = [processingInterval |-> FALSE, batchInterval |-> FALSE]
    /\ callbacks' = ShutdownCallbacks(queue)
    /\ batches' = [b \in BatchIds |->
                      IF batches[b] # NoBatch
                         /\ batches[b].status = "processing"
                      THEN [batches[b] EXCEPT !.inMap = FALSE]
                      ELSE NoBatch]
    /\ processingQueue' = {}
    /\ lastCall' = Call("cleanup", "", NoRet, "Command queue cleanup completed", 0)
    /\ UNCHANGED <<queue, totalCommands, now>>

\* public cleanup(); a batch still being processed lives on outside the Map
\* until its executions have settled
QueueCleanup ==
    /\ timers' = [processingInterval |-> FALSE, batchInterval |-> FALSE]
    /\ callbacks' = ShutdownCallbacks(queue)
    /\ queue' = <<>>
    /\ batches' = [b \in BatchIds |->
                      IF batches[b] # NoBatch
                         /\ batches[b].status = "processing"
                      THEN [batches[b] EXCEPT !.inMap = FALSE]
                      ELSE NoBatch]
    /\ processingQueue' = {}
    /\ lastCall' = Call("cleanup", "", NoRet, "Command queue cleanup completed", 0)
    /\ UNCHANGED <<totalCommands, now>>

\* ------------------------------------------------------------------------
\* Part III - ConnectionPoolManager
\* ------------------------------------------------------------------------
\* One unit of time is one health check interval (15 s); the interval is
\* armed in the constructor, so a health check runs at every unit boundary.
\* A JavaScript handler runs to completion together with the promise
\* continuations it releases, so a socket event and the resumption of the
\* call that awaited it are one step.  A PooledConnection that is neither in
\* the Map nor awaited by a call is unreachable: the events its socket still
\* delivers run handlers that change that object only, and are left out.

maxConnections == 2
\* the 60000 ms without a pong that performHealthCheck() tolerates
pingTimeout == 4

MaxCallers == 3
MaxSockets == 3
MaxPoolTime == 6
MaxProbeCallers == 2
MaxProbeSockets == 2

\* the calls that can be in progress at once
Callers == 1..MaxCallers
\* the sockets that can exist at once
ConnIds == 1..MaxSockets

VARIABLES
    connections,          \* the PooledConnections in the Map or awaited
    activeConnection,     \* connection id, 0 for null
    healthCheckInterval,  \* TRUE while the interval is armed
    calls,                \* the getConnection / sendMessage calls in progress
    sent                  \* the sends the latest step made for sendMessage():
                          \* [conn, ok], ok = FALSE when the send threw

poolVars == <<connections, activeConnection, healthCheckInterval, calls,
              sent>>

NoConn == [ws |-> "none"]
Idle == [pc |-> "idle"]

\* Date.now(), which is never 0
DateNow == now + 1

\* the keys of the Map ConnectionPoolManager.connections
MapIds(conns) == {c \in ConnIds : conns[c] # NoConn /\ conns[c].inMap}

\* conn.isHealthy && conn.status === "connected"
Usable(conn) == conn.isHealthy /\ conn.status = "connected"

\* healthyConnections of findBestConnection()
HealthyConnections(conns) == {c \in MapIds(conns) : Usable(conns[c])}

\* the connections findBestConnection() can select: it takes the healthy
\* connection of highest score, and the score orders them by age and idle
\* time in milliseconds, which the model does not keep
findBestConnection(conns) == HealthyConnections(conns)

\* the PooledConnection object built by createConnection(); probeAt records
\* the time of the oldest ping that no pong has followed (0: none)
NewConnection ==
    [ws |-> "CONNECTING", status |-> "connecting", isHealthy |-> FALSE,
     inMap |-> FALSE, errors |-> 0, pinged |-> FALSE, lastPong |-> 0,
     probeAt |-> 0]

NullRet == [kind |-> "null"]
ConnRet(c) == [kind |-> "connection", id |-> c]
RejectedRet(message) == [kind |-> "rejected", message |-> message]

PoolInit ==
    /\ connections = [c \in ConnIds |-> NoConn]
    /\ activeConnection = 0
    /\ healthCheckInterval = TRUE
    /\ calls = [p \in Callers |-> Idle]
    /\ sent = <<>>

\* a variant of the catch block that leaves the connection healthy
sendFailedStaysHealthy(conns, c) ==
    [conns EXCEPT ![c].errors = @ + 1]

\* the catch block of sendMessage(): connection.metrics.errors++,
\* connection.isHealthy = false
sendFailed(conns, c) ==
    [conns EXCEPT ![c].errors = @ + 1, ![c].isHealthy = FALSE]

\* the call p resumes with connection c (0 for null) and returns:
\* getConnection() returns c, sendMessage() sends on it
Complete(p, op, throws, c, conns, active) ==
    /\ calls' = [calls EXCEPT ![p] = Idle]
    /\ IF op = "getConnection"
       THEN /\ connections' = conns
            /\ activeConnection' = active
            /\ sent' = <<>>
            /\ lastCall' = Call(op, ToString(p),
                                IF c = 0 THEN NullRet ELSE ConnRet(c), "", 0)
       ELSE IF c = 0
       THEN /\ connections' = conns
            /\ activeConnection' = active
            /\ sent' = <<>>
            /\ lastCall' = Call(op, ToString(p), BoolRet(FALSE),
                                "Cannot send message: no connection available", 0)
       ELSE IF throws
       THEN /\ connections' = sendFailed(conns, c)
            /\ activeConnection' = IF active = c THEN 0 ELSE active
            /\ sent' = <<[conn |-> c, ok |-> FALSE]>>
            /\ lastCall' = Call(op, ToString(p), BoolRet(FALSE),
                                "Message send failed", 0)
       ELSE /\ connections' = conns
            /\ activeConnection' = active
            /\ sent' = <<[conn |-> c, ok |-> TRUE]>>
            /\ lastCall' = Call(op, ToString(p), BoolRet(TRUE),
                                "Message sent via pool", 0)

\* the call p ends with a rejected promise
Reject(p, message) ==
    /\ calls' = [calls EXCEPT ![p] = Idle]
    /\ lastCall' = Call(calls[p].op, ToString(p), RejectedRet(message), "", 0)

\* the call awaiting createConnection() for socket c
Waiter(c) == CHOOSE p \in Callers : calls[p] # Idle /\ calls[p].conn = c

\* public async getConnection(), up to its return or to the await of
\* createConnection(); op = "sendMessage" is sendMessage(data), which starts
\* with it, and throws tells whether JSON.stringify(data) or ws.send() throws
GetConnection(p, op, throws, slots) ==
    /\ calls[p] = Idle
    /\ \A q \in Callers : q < p => calls[q] # Idle
    /\ IF /\ activeConnection # 0
          /\ activeConnection \in MapIds(connections)
          /\ Usable(connections[activeConnection])
       THEN Complete(p, op, throws, activeConnection, connections,
                     activeConnection)
       ELSE IF HealthyConnections(connections) # {}
       THEN \E best \in findBestConnection(connections) :
                Complete(p, op, throws, best, connections, best)
       ELSE IF Cardinality(MapIds(connections)) < maxConnections
       THEN /\ \E c \in slots : connections[c] = NoConn
            /\ LET c == CHOOSE c \in slots :
                            /\ connections[c] = NoConn
                            /\ \A d \in slots : connections[d] = NoConn => c <= d
               IN  /\ connections' = [connections EXCEPT
                                         ![c] = NewConnection]
                   /\ calls' = [calls EXCEPT ![p] =
                                   [pc |-> "creating", op |-> op, conn |-> c]]
                   /\ lastCall' = NoCall
                   /\ sent' = <<>>
                   /\ UNCHANGED activeConnection
       ELSE Complete(p, op, throws, 0, connections, activeConnection)
    /\ UNCHANGED <<healthCheckInterval, now>>

\* ws.onopen, then getConnection() resumes: activeConnection = newConnection.id
SocketOpen(c, throws) ==
    /\ connections[c] # NoConn
    /\ connections[c].ws = "CONNECTING"
    /\ LET p == Waiter(c)
           conns == [connections EXCEPT ![c].ws = "OPEN",
                                        ![c].status = "connected",
                                        ![c].isHealthy = TRUE,
                                        ![c].inMap = TRUE]
       IN  /\ calls[p].op = "getConnection" => ~throws
           /\ Complete(p, calls[p].op, throws, c, conns, c)
    /\ UNCHANGED <<healthCheckInterval, now>>

\* ws.onerror: reject(error) ends the call that awaits the socket, because
\* createConnection() returns the promise without awaiting it inside its try
SocketError(c) ==
    /\ connections[c] # NoConn
    /\ connections[c].ws \in {"CONNECTING", "OPEN"}
    /\ IF connections[c].ws = "CONNECTING"
       THEN /\ connections' = [connections EXCEPT ![c] = NoConn]
            /\ Reject(Waiter(c), "socket error")
       ELSE /\ connections' = [connections EXCEPT ![c].ws = "CLOSING",
                                                  ![c].status = "error",
                                                  ![c].isHealthy = FALSE,
                                                  ![c].errors = @ + 1]
            /\ lastCall' = NoCall
            /\ UNCHANGED calls
    /\ sent' = <<>>
    /\ UNCHANGED <<activeConnection, healthCheckInterval, now>>

\* the connectionTimeout timer of createConnection(): ws.close(), reject
ConnectionTimeout(c) ==
    /\ connections[c] # NoConn
    /\ connections[c].ws = "CONNECTING"
    /\ connections' = [connections EXCEPT ![c] = NoConn]
    /\ Reject(Waiter(c), "Connection timeout")
    /\ sent' = <<>>
    /\ UNCHANGED <<activeConnection, healthCheckInterval, now>>

\* the active connection id after connection c, which was active, has left
\* the candidates: this.activeConnection = null; this.findBestConnection()
Reselect(conns) ==
    /\ connections' = conns
    /\ IF HealthyConnections(conns) = {}
       THEN activeConnection' = 0
       ELSE activeConnection' \in findBestConnection(conns)

\* ws.onclose of a connection of the Map
SocketClose(c) ==
    /\ connections[c] # NoConn
    /\ connections[c].ws \in {"OPEN", "CLOSING"}
    /\ LET conns == [connections EXCEPT ![c] = NoConn]
       IN  IF activeConnection = c
           THEN Reselect(conns)
           ELSE /\ connections' = conns
                /\ UNCHANGED activeConnection
    /\ lastCall' = NoCall
    /\ sent' = <<>>
    /\ UNCHANGED <<calls, healthCheckInterval, now>>

\* ws.onmessage; pong tells whether the message is {type: "pong"}: any other
\* message changes only lastUsed and messagesReceived, which are not kept
SocketMessage(c, pong) ==
    /\ connections[c] # NoConn
    /\ connections[c].ws = "OPEN"
    /\ pong
    /\ connections' = [connections EXCEPT ![c].lastPong = DateNow,
                                          ![c].probeAt = 0]
    /\ lastCall' = NoCall
    /\ sent' = <<>>
    /\ UNCHANGED <<activeConnection, calls, healthCheckInterval, now>>

\* a variant that never reports a ping timeout
PingNeverTimesOut(conn, t) == FALSE

\* performHealthCheck(): connection.metrics.lastPing > 0 &&
\* now - connection.metrics.lastPong > 60000 (lastPong is 0 until a pong)
PingTimedOut(conn, t) ==
    /\ conn.pinged
    /\ conn.lastPong = 0 \/ t - conn.lastPong > pingTimeout

\* the connections performHealthCheck() puts in connectionsToRemove
ToRemove(t) ==
    {c \in MapIds(connections) :
        \/ connections[c].status # "connected"
        \/ connections[c].ws # "OPEN"
        \/ PingTimedOut(connections[c], t)}

\* removeConnection(): ws.close() when open, connections.delete()
removeConnection(conn) == NoConn

\* the connections after the loop and the removals of performHealthCheck()
AfterHealthCheck(t) ==
    [c \in ConnIds |->
        IF c \in ToRemove(t)
        THEN removeConnection(connections[c])
        ELSE IF c \in MapIds(connections)
        THEN [connections[c] EXCEPT !.pinged = TRUE,
                                    !.probeAt = IF @ = 0 THEN t ELSE @]
        ELSE connections[c]]

\* one health check interval passes and its timer, if armed, fires
\* performHealthCheck()
HealthCheckTick(maxTime) ==
    /\ now < maxTime
    /\ now' = now + 1
    /\ IF healthCheckInterval
       THEN IF activeConnection \in ToRemove(now + 2)
            THEN Reselect(AfterHealthCheck(now + 2))
            ELSE /\ connections' = AfterHealthCheck(now + 2)
                 /\ UNCHANGED activeConnection
       ELSE UNCHANGED <<connections, activeConnection>>
    /\ lastCall' = Call("tick", "", NoRet, "", 0)
    /\ sent' = <<>>
    /\ UNCHANGED <<calls, healthCheckInterval>>

\* the timestamps of the connections, moved back by one interval; a
\* timestamp older than every threshold stays at 1, and 0 stays "never"
Rebase(conns) ==
    [c \in ConnIds |->
        IF conns[c] = NoConn THEN NoConn
        ELSE [conns[c] EXCEPT !.lastPong = IF @ > 1 THEN @ - 1 ELSE @,
                              !.probeAt = IF @ > 1 THEN @ - 1 ELSE @]]

\* one health check interval passes and its timer fires performHealthCheck(),
\* with the clock read relative to the cycle: instead of advancing now, the
\* timestamps kept in the connections move back by one interval
HealthCheckCycle ==
    /\ healthCheckInterval
    /\ IF activeConnection \in ToRemove(now + 2)
       THEN Reselect(Rebase(AfterHealthCheck(now + 2)))
       ELSE /\ connections' = Rebase(AfterHealthCheck(now + 2))
            /\ UNCHANGED activeConnection
    /\ lastCall' = Call("tick", "", NoRet, "", 0)
    /\ sent' = <<>>
    /\ UNCHANGED <<calls, healthCheckInterval, now>>

\* public async cleanup(); the connections findBestConnection() touches
\* while the others are removed are removed by the same call
PoolCleanup ==
    /\ healthCheckInterval' = FALSE
    /\ connections' = [c \in ConnIds |->
                          IF c \in MapIds(connections)
                          THEN removeConnection(connections[c])
                          ELSE connections[c]]
    /\ activeConnection' = 0
    /\ lastCall' = Call("cleanup", "pool", NoRet,
                        "Connection pool cleanup completed", 0)
    /\ sent' = <<>>
    /\ UNCHANGED <<calls, now>>

\* ------------------------------------------------------------------------
\* Part IV - WebSocketClient
\* ------------------------------------------------------------------------
\* private maxReconnectAttempts
maxReconnectAttempts == 10
\* private reconnectInterval, in ms
reconnectInterval == 5000
\* cap of the reconnect delay, in ms
maxReconnectDelay == 30000
\* period of the health check interval, in ms
healthCheckPeriod == 15000
\* const pingTimeout of the health check, in ms
clientPingTimeout == 60000

\* sockets alive at once: the one in this.ws and those it replaced whose
\* close event is still to come
MaxClientSockets == 2
\* commands in execution at once
MaxClientCommands == 2
\* reconnectCount in the model with inbound messages
MaxClientReconnects == 1
\* connection timeouts pending at once that are told apart
MaxConnectTimers == 2
\* cooldown timers pending at once that are told apart
MaxCooldownTimers == 2

ClientSockets == 1..MaxClientSockets
ClientCommands == 1..MaxClientCommands
MessageTypes == {"welcome", "ping", "pong", "auth_success", "auth_error",
                 "command", "unknown"}

\* client  the WebSocketClient and what it holds on to:
\*   ws, isConnected, reconnectTimeout, pingInterval, reconnectCount,
\*   connectionHealthCheckInterval, manualDisconnect: the fields of the class;
\*     ws is a socket or 0 (null); reconnectTimeout is 0 (null) or the delay
\*     of the pending timer in 1/512 ms; the intervals are TRUE while set
\*   pingAge   Date.now() - lastPingTime in ms, capped; -1 while lastPingTime
\*             is 0
\*   ponged    lastPongTime is not 0 and not before lastPingTime
\*   sockets   readyState of every socket and the messages of the handshake
\*             it has delivered (phase); "none" once closed and dropped
\*   connectTimer  the number of 10 s connection timeouts pending, one per
\*             connect() attempt, the oldest firing first; those beyond
\*             MaxConnectTimers are not told apart from the newest
\*   cooldownTimer  the number of 60 s cooldown timers of scheduleReconnect
\*             pending, the oldest firing first; those beyond
\*             MaxCooldownTimers are not told apart from the newest
\*   closeTimer  the 500 ms delayed close of disconnect() is pending
\*   executing the commands whose executeCommand() is awaited, in the order
\*             their messages arrived
\*   authFailed  an auth_error message has been received
\*   out       the frames handed to ws.send() by the last step
\*   last      the last step: handler, socket, message type, command and
\*             what safeSend returned last ("none" if it was not called)
VARIABLE client

NoSocket == [readyState |-> "none", phase |-> "none"]

Last(op, sock, msg, cmd) == [op |-> op, sock |-> sock, msg |-> msg, cmd |-> cmd]

ClientInit ==
    client = [ws |-> 0, isConnected |-> FALSE, reconnectTimeout |-> 0,
              pingInterval |-> FALSE, reconnectCount |-> 0,
              pingAge |-> -1, ponged |-> FALSE,
              connectionHealthCheckInterval |-> FALSE,
              manualDisconnect |-> FALSE,
              sockets |-> [s \in ClientSockets |-> NoSocket],
              connectTimer |-> 0, cooldownTimer |-> 0,
              closeTimer |-> FALSE,
              executing |-> <<>>, authFailed |-> FALSE,
              out |-> <<>>, ret |-> "none",
              last |-> Last("constructor", 0, "", 0)]

Frame(type, status, cmd) == [type |-> type, status |-> status, cmd |-> cmd]

\* a closed socket nothing refers to any more
Release(c) ==
    [c EXCEPT !.sockets = [s \in ClientSockets |->
                              IF c.sockets[s].readyState = "CLOSED" /\ c.ws # s
                              THEN NoSocket ELSE c.sockets[s]]]

\* ws.close(): the closing handshake starts unless the socket is closing or
\* closed already; the close event comes later
CloseCall(sock) ==
    IF sock.readyState \in {"CONNECTING", "OPEN"}
    THEN [sock EXCEPT !.readyState = "CLOSING"]
    ELSE sock

\* the delay that is the cap from the first attempt on
ReconnectDelayFlat(n) == maxReconnectDelay * (2 ^ (maxReconnectAttempts - 1))

\* Math.min(30000, reconnectInterval * Math.pow(1.5, n - 1)) in 1/512 ms,
\* for 1 <= n <= maxReconnectAttempts
ReconnectDelay(n) ==
    LET raw == reconnectInterval * (3 ^ (n - 1)) * (2 ^ (maxReconnectAttempts - n))
        cap == maxReconnectDelay * (2 ^ (maxReconnectAttempts - 1))
    IN IF raw < cap THEN raw ELSE cap

\* private scheduleReconnect(); reconnectCount stays at
\* maxReconnectAttempts + 1 once it is above maxReconnectAttempts
scheduleReconnect(c) ==
    IF c.reconnectTimeout # 0 THEN c
    ELSE IF c.reconnectCount + 1 > maxReconnectAttempts
         THEN [c EXCEPT !.reconnectCount = maxReconnectAttempts + 1,
                        !.cooldownTimer =
                            IF @ < MaxCooldownTimers THEN @ + 1 ELSE @]
         ELSE [c EXCEPT !.reconnectCount = @ + 1,
                        !.reconnectTimeout = ReconnectDelay(c.reconnectCount + 1)]

\* private safeSend(data)
safeSend(c, frame) ==
    IF ~c.isConnected \/ c.ws = 0
    THEN [c EXCEPT !.ret = "false"]
    ELSE IF c.sockets[c.ws].readyState # "OPEN"
    THEN IF c.sockets[c.ws].readyState \in {"CLOSED", "CLOSING"}
         THEN [scheduleReconnect([c EXCEPT !.isConnected = FALSE,
                                           !.manualDisconnect = FALSE])
                  EXCEPT !.ret = "false"]
         ELSE [c EXCEPT !.ret = "false"]
    ELSE [c EXCEPT !.out = Append(@, frame), !.ret = "true",
                   !.pingAge = IF frame.type = "ping" THEN 0 ELSE @,
                   !.ponged = IF frame.type = "ping" THEN FALSE ELSE @]

\* public disconnect(manual)
disconnect(c, manual) ==
    LET c1 == [c EXCEPT !.manualDisconnect = manual,
                        !.pingInterval = FALSE,
                        !.connectionHealthCheckInterval = FALSE,
                        !.reconnectTimeout = 0]
    IN IF c1.ws = 0 THEN c1
       ELSE IF c1.isConnected /\ c1.sockets[c1.ws].readyState = "OPEN"
       THEN [safeSend(c1, Frame("status", "disconnected", 0))
                EXCEPT !.closeTimer = TRUE]
       ELSE [c1 EXCEPT !.sockets[c1.ws] = CloseCall(@),
                       !.ws = 0, !.isConnected = FALSE]

\* the socket this.ws is closed and dropped, as connect() does first
Dropped(c) ==
    Release(IF c.ws # 0
            THEN [c EXCEPT !.sockets[c.ws] = CloseCall(@), !.ws = 0]
            ELSE c)

\* public async connect(), up to the return of the promise
connect(c) ==
    IF c.manualDisconnect THEN c
    ELSE LET s == CHOOSE s \in ClientSockets :
                      Dropped(c).sockets[s].readyState = "none"
         IN [Dropped(c) EXCEPT !.ws = s,
                               !.sockets[s] = [readyState |-> "CONNECTING",
                                               phase |-> "new"],
                               !.connectTimer =
                                   IF @ < MaxConnectTimers THEN @ + 1 ELSE @]

\* connect() finds a socket to create
CanConnect(c) ==
    c.manualDisconnect
    \/ \E s \in ClientSockets : Dropped(c).sockets[s].readyState = "none"

\* the state a handler starts from, and the one it leaves
Started == [client EXCEPT !.out = <<>>, !.ret = "none"]
Finish(c, last) == client' = [Release(c) EXCEPT !.last = last]

\* index.ts: await wsClient.connect() after construction
Connect ==
    /\ client.last.op = "constructor"
    /\ Finish(connect(Started), Last("connect", 0, "", 0))

\* wsClient.disconnect() called by the application
Disconnect ==
    Finish(disconnect(Started, TRUE), Last("disconnect", 0, "", 0))

\* ws.onopen
SocketOpened(s) ==
    /\ client.sockets[s].readyState = "CONNECTING"
    /\ Finish([Started EXCEPT !.sockets[s].readyState = "OPEN",
                              !.isConnected = TRUE,
                              !.reconnectCount = 0,
                              !.connectionHealthCheckInterval = TRUE],
              Last("onopen", s, "", 0))

\* the transport fails or the server starts to close: the socket leaves
\* CONNECTING / OPEN, ws.onerror changes nothing, the close event is to come
SocketFailing(s) ==
    /\ client.sockets[s].readyState \in {"CONNECTING", "OPEN"}
    /\ Finish([Started EXCEPT !.sockets[s].readyState = "CLOSING"],
              Last("onerror", s, "", 0))

\* ws.onclose
SocketClosed(s) ==
    /\ client.sockets[s].readyState = "CLOSING"
    /\ LET c1 == [Started EXCEPT !.sockets[s].readyState = "CLOSED",
                                 !.isConnected = FALSE,
                                 !.pingInterval = FALSE,
                                 !.connectionHealthCheckInterval = FALSE]
       IN Finish(IF c1.manualDisconnect THEN c1 ELSE scheduleReconnect(c1),
                 Last("onclose", s, "", 0))

\* private sendAuthMessage()
sendAuthMessage(c) ==
    IF ~c.isConnected \/ c.ws = 0 THEN c
    ELSE safeSend(c, Frame("auth", "", 0))

\* ws.onmessage and handleMessage(message), up to the await of
\* executeCommand for a command and to the end for every other type
ReceiveMessage(s, type, cmd) ==
    /\ client.sockets[s].readyState = "OPEN"
    /\ type = "command" <=> cmd # 0
    /\ type = "command" =>
           /\ Len(client.executing) < MaxClientCommands
           /\ \A i \in 1..Len(client.executing) : client.executing[i] # cmd
    /\ Finish(CASE type = "welcome" ->
                       sendAuthMessage([Started EXCEPT
                           !.sockets[s].phase = IF @ = "new" THEN "welcomed"
                                                ELSE @])
                [] type = "ping" -> safeSend(Started, Frame("pong", "", 0))
                [] type = "pong" -> [Started EXCEPT !.ponged = TRUE]
                [] type = "auth_success" ->
                       [safeSend([Started EXCEPT
                                     !.sockets[s].phase =
                                         IF @ = "welcomed" THEN "ready" ELSE @],
                                 Frame("status", "connected", 0))
                           EXCEPT !.pingInterval = TRUE]
                [] type = "auth_error" ->
                       [disconnect(Started, TRUE) EXCEPT !.authFailed = TRUE]
                [] type = "command" ->
                       [safeSend(Started, Frame("status", "busy", 0))
                           EXCEPT !.executing = Append(@, cmd)]
                [] type = "unknown" -> Started,
              Last("onmessage", s, type, cmd))

\* executeCommand() settles for the i-th command in execution: the rest of
\* handleMessage sends the command_result and the status "ready"
CommandDone(i) ==
    /\ i \in 1..Len(client.executing)
    /\ LET cmd == client.executing[i]
           c1 == safeSend(Started, Frame("command_result", "", cmd))
           c2 == safeSend(c1, Frame("status", "ready", 0))
       IN Finish([c2 EXCEPT !.executing =
                      SubSeq(@, 1, i - 1) \o SubSeq(@, i + 1, Len(@))],
                 Last("executed", 0, "command", cmd))

\* Date.now() - lastPingTime after another healthCheckPeriod
Aged(c) ==
    [c EXCEPT !.pingAge =
        IF @ = -1 THEN -1
        ELSE IF @ + healthCheckPeriod > clientPingTimeout + healthCheckPeriod
             THEN @ ELSE @ + healthCheckPeriod]

\* lastPingTime > 0 && Date.now() - lastPingTime > pingTimeout &&
\* (lastPongTime === 0 || lastPingTime > lastPongTime)
PingOverdue(c) ==
    c.pingAge # -1 /\ c.pingAge > clientPingTimeout /\ ~c.ponged

\* the callback of the health check interval, healthCheckPeriod after the
\* interval was set or fired last; nothing set after a disconnect() is due
\* before the delayed close of that disconnect()
HealthCheckFires ==
    /\ client.connectionHealthCheckInterval
    /\ ~client.closeTimer
    /\ LET c == Aged(Started)
       IN Finish(IF ~c.isConnected \/ c.ws = 0 THEN c
                 ELSE IF c.sockets[c.ws].readyState # "OPEN"
                      THEN scheduleReconnect(disconnect(c, FALSE))
                 ELSE IF PingOverdue(c)
                      THEN scheduleReconnect(disconnect(c, FALSE))
                 ELSE safeSend(c, Frame("ping", "", 0)),
                 Last("healthCheck", 0, "", 0))

\* healthCheckPeriod passes while no health check interval is set
Elapse ==
    /\ ~client.connectionHealthCheckInterval
    /\ Aged(client) # client
    /\ Finish(Aged(Started), Last("elapse", 0, "", 0))

\* the callback of the ping interval
PingIntervalFires ==
    /\ client.pingInterval
    /\ ~client.closeTimer
    /\ LET c == Started
       IN Finish(IF c.isConnected /\ c.ws # 0
                    /\ c.sockets[c.ws].readyState = "OPEN"
                 THEN safeSend(c, Frame("ping", "", 0))
                 ELSE IF c.ws # 0 /\ c.sockets[c.ws].readyState # "OPEN"
                      THEN scheduleReconnect(disconnect(c, FALSE))
                 ELSE c,
                 Last("pingInterval", 0, "", 0))

\* the callback of reconnectTimeout
ReconnectFires ==
    /\ client.reconnectTimeout # 0
    /\ ~client.closeTimer
    /\ CanConnect([Started EXCEPT !.reconnectTimeout = 0])
    /\ Finish(connect([Started EXCEPT !.reconnectTimeout = 0]),
              Last("reconnect", 0, "", 0))

\* the callback of the 60 s timer of scheduleReconnect
CooldownFires ==
    /\ client.cooldownTimer > 0
    /\ CanConnect(Started)
    /\ Finish(connect([Started EXCEPT !.cooldownTimer = @ - 1,
                                      !.reconnectCount = 0]),
              Last("cooldown", 0, "", 0))

\* the callback of the 10 s timer of connect()
ConnectTimeoutFires ==
    /\ client.connectTimer > 0
    /\ LET c == [Started EXCEPT !.connectTimer = @ - 1]
       IN Finish(IF c.ws # 0 /\ c.sockets[c.ws].readyState # "OPEN"
                 THEN [c EXCEPT !.sockets[c.ws] = CloseCall(@),
                                !.isConnected = FALSE]
                 ELSE c,
                 Last("connectTimeout", 0, "", 0))

\* the callback of the 500 ms timer of disconnect()
DelayedCloseFires ==
    /\ client.closeTimer
    /\ LET c == [Started EXCEPT !.closeTimer = FALSE]
       IN Finish([(IF c.ws # 0
                   THEN [c EXCEPT !.sockets[c.ws] = CloseCall(@)]
                   ELSE c)
                     EXCEPT !.ws = 0, !.isConnected = FALSE],
                 Last("delayedClose", 0, "", 0))

\* ------------------------------------------------------------------------
\* Part V - PerformanceIntegrationManager (the health score)
\* ------------------------------------------------------------------------
\* metrics.averageCommandTime in ms, around the 2000 and 5000 ms thresholds
CommandTimes == {0, 2000, 2001, 5000, 5001}
\* metrics.cacheHitRate in percent, around the 20 % and 50 % thresholds
CacheHitRates == {0, 19, 20, 49, 50, 100}
\* commandQueue.getQueueSize(), around the thresholds 20 and 50
QueueSizes == {0, 20, 21, 50, 51}
\* memoryManager.getStats().memory_utilization in percent, around 70 and 90
MemoryUtilizations == {0, 70, 71, 90, 91}

\* perfConfig   this.config: the two switches evaluateSystemHealth reads
\* perfMetrics  this.metrics: averageCommandTime, cacheHitRate, systemHealth
\* perfEval     the last run of evaluateSystemHealth: the queue size and the
\*              memory utilization it read and its local healthScore
\* optimizer    what executeOptimizedCommand works on (Part VI)
VARIABLES perfConfig, perfMetrics, perfEval, optimizer

perfVars == <<perfConfig, perfMetrics, perfEval, optimizer>>

NotEvaluated == [evaluated |-> FALSE, queueSize |-> 0,
                 memoryUtilization |-> 0, healthScore |-> 100]

\* constructor(config?) of the singleton: every switch on, no command yet
PerfInit ==
    /\ perfConfig = [enableCommandQueuing |-> TRUE,
                     enableMemoryOptimization |-> TRUE]
    /\ perfMetrics = [averageCommandTime |-> 0, cacheHitRate |-> 0,
                      systemHealth |-> "good"]
    /\ perfEval = NotEvaluated

\* the manager constructed with any two switches, after commands have left
\* any average command time and cache hit rate in its metrics
PerfInputs ==
    /\ perfConfig \in [enableCommandQueuing : BOOLEAN,
                       enableMemoryOptimization : BOOLEAN]
    /\ perfMetrics \in [averageCommandTime : CommandTimes,
                        cacheHitRate : CacheHitRates,
                        systemHealth : {"good"}]
    /\ perfEval = NotEvaluated

\* let healthScore = 100 and the four deductions of evaluateSystemHealth
healthScore(cfg, m, queueSize, memoryUtilization) ==
    100
    - (IF m.averageCommandTime > 5000 THEN 30
       ELSE IF m.averageCommandTime > 2000 THEN 15 ELSE 0)
    - (IF m.cacheHitRate < 20 THEN 20
       ELSE IF m.cacheHitRate < 50 THEN 10 ELSE 0)
    - (IF cfg.enableCommandQueuing
       THEN (IF queueSize > 50 THEN 25
             ELSE IF queueSize > 20 THEN 10 ELSE 0)
       ELSE 0)
    - (IF cfg.enableMemoryOptimization
       THEN (IF memoryUtilization > 90 THEN 30
             ELSE IF memoryUtilization > 70 THEN 15 ELSE 0)
       ELSE 0)

\* the label the score is stored as; every score under 70 reads "poor" here
systemHealthNoFair(score) ==
    IF score >= 85 THEN "excellent"
    ELSE IF score >= 70 THEN "good"
    ELSE "poor"

\* the label the score is stored as in metrics.systemHealth
systemHealth(score) ==
    IF score >= 85 THEN "excellent"
    ELSE IF score >= 70 THEN "good"
    ELSE IF score >= 50 THEN "fair"
    ELSE "poor"

\* private collectMetrics(), every 30 s: the stats are read and
\* evaluateSystemHealth() stores the label, warning when it is "poor"
CollectMetrics(queueSize, memoryUtilization) ==
    LET score == healthScore(perfConfig, perfMetrics, queueSize,
                             memoryUtilization)
    IN /\ perfMetrics' = [perfMetrics EXCEPT
                             !.systemHealth = systemHealth(score)]
       /\ perfEval' = [evaluated |-> TRUE, queueSize |-> queueSize,
                       memoryUtilization |-> memoryUtilization,
                       healthScore |-> score]
       /\ lastCall' = Call("collectMetrics", "perf", NoRet,
                           IF systemHealth(score) = "poor"
                           THEN "System health is poor, consider optimization"
                           ELSE "", 0)
       /\ UNCHANGED <<perfConfig, now>>

\* public updateConfig(newConfig)
UpdateConfig(newConfig) ==
    /\ perfConfig' = newConfig
    /\ lastCall' = Call("updateConfig", "perf", NoRet,
                        "Performance configuration updated", 0)
    /\ UNCHANGED <<perfMetrics, perfEval, now>>

\* ------------------------------------------------------------------------
\* Part VI - PerformanceIntegrationManager.executeOptimizedCommand and the
\* ResultCache
\* ------------------------------------------------------------------------
\* The ResultCache is kept as what getCommandResult() finds under each key;
\* an entry leaves it when its TTL has passed or when it is evicted.  A
\* command is the sequence of its UTF-16 code units.

\* the commands: "Aa", "BB" and "ls"
OptCommands == {<<65, 97>>, <<66, 66>>, <<108, 115>>}
\* executeOptimizedCommand calls in progress at once
MaxOptCallers == 2
OptCallers == 1..MaxOptCallers

\* hashCommand(command): hash = (hash << 5) - hash + char, hash & hash, over
\* the characters from left to right; for commands this short every value
\* stays inside the 32-bit range, where << 5 is * 32 and & leaves the value.
\* toString(36) is one-to-one, so the key is kept as the number
RECURSIVE hashCommand(_)
hashCommand(command) ==
    IF command = <<>> THEN 0
    ELSE LET hash == hashCommand(SubSeq(command, 1, Len(command) - 1))
         IN  (hash * 32) - hash + command[Len(command)]

OptKeys == {hashCommand(command) : command \in OptCommands}

\* null, and the object executeCommand resolves with
NoResult == [kind |-> "null"]
ResultOf(command, success) ==
    [kind |-> "result", command |-> command, success |-> success]

\* resultCache.getCommandResult(command)
getCommandResult(store, command) == store[hashCommand(command)]

\* resultCache.cacheCommandResult(command, result)
cacheCommandResult(store, command, result) ==
    [store EXCEPT ![hashCommand(command)] = result]

\* this.config.enableResultCaching && result
WorthCaching(cfg, result) ==
    cfg.enableResultCaching /\ result # NoResult

OptIdle == [pc |-> "idle"]

\* the last step: what it was, the call, the command, the value the call
\* returned and whether that value came from the cache
OptLast(op, p, command, result, cached) ==
    [op |-> op, call |-> p, command |-> command, result |-> result,
     cached |-> cached]

\* the singleton as constructed: both switches on
OptInit ==
    optimizer = [config |-> [enableResultCaching |-> TRUE,
                             enableCommandQueuing |-> TRUE],
                 results |-> [k \in OptKeys |-> NoResult],
                 calls |-> [p \in OptCallers |-> OptIdle],
                 last |-> OptLast("constructor", 0, <<>>, NoResult, FALSE)]

\* the manager constructed with any two switches
OptInputs ==
    \E cfg \in [enableResultCaching : BOOLEAN,
                 enableCommandQueuing : BOOLEAN] :
        optimizer = [config |-> cfg,
                     results |-> [k \in OptKeys |-> NoResult],
                     calls |-> [p \in OptCallers |-> OptIdle],
                     last |-> OptLast("constructor", 0, <<>>, NoResult,
                                      FALSE)]

\* public async executeOptimizedCommand(command, options), up to the return
\* of the cached value or to the wait for the execution.  queueFull:
\* commandQueue.addCommand() rejects, which nothing handles, so that the
\* promise returned to the caller never settles
ExecuteOptimizedCommand(p, command, useCache, queueFull) ==
    /\ optimizer.calls[p] = OptIdle
    /\ queueFull => optimizer.config.enableCommandQueuing
    /\ LET cached == getCommandResult(optimizer.results, command) IN
       IF /\ optimizer.config.enableResultCaching
          /\ useCache
          /\ cached # NoResult
       THEN optimizer' = [optimizer EXCEPT
                !.last = OptLast("return", p, command, cached, TRUE)]
       ELSE IF queueFull
       THEN optimizer' = [optimizer EXCEPT
                !.calls[p] = [pc |-> "unsettled", command |-> command],
                !.last = OptLast("addCommand", p, command, NoResult, FALSE)]
       ELSE optimizer' = [optimizer EXCEPT
                !.calls[p] = [pc |-> "executing", command |-> command],
                !.last = OptLast("execute", p, command, NoResult, FALSE)]

\* the execution of the call's command is over: the onSuccess callback given
\* to addCommand, which the queue invokes for every fulfilled execution
\* (HandleResults), or the code after await executeCommand() when queuing
\* is off; success is result.success
ExecutionSettles(p, success) ==
    /\ optimizer.calls[p] # OptIdle
    /\ optimizer.calls[p].pc = "executing"
    /\ LET command == optimizer.calls[p].command
           result == ResultOf(command, success)
       IN  optimizer' = [optimizer EXCEPT
               !.results = IF WorthCaching(optimizer.config, result)
                           THEN cacheCommandResult(@, command, result)
                           ELSE @,
               !.calls[p] = OptIdle,
               !.last = OptLast("return", p, command, result, FALSE)]

\* the onError callback given to addCommand: reject(error)
ExecutionRejects(p) ==
    /\ optimizer.calls[p] # OptIdle
    /\ optimizer.calls[p].pc = "executing"
    /\ optimizer.config.enableCommandQueuing
    /\ optimizer' = [optimizer EXCEPT
            !.calls[p] = OptIdle,
            !.last = OptLast("reject", p, optimizer.calls[p].command,
                             NoResult, FALSE)]

\* the entry under key k has outlived its TTL or is evicted
ResultLeaves(k) ==
    /\ optimizer.results[k] # NoResult
    /\ optimizer' = [optimizer EXCEPT
            !.results[k] = NoResult,
            !.last = OptLast("expire", 0, <<>>, NoResult, FALSE)]

vars == <<config, cache, accessOrder, currentSize, metrics, now, lastCall,
          queue, processingQueue, batches, timers, totalCommands, callbacks,
          connections, activeConnection, healthCheckInterval, calls, sent,
          perfConfig, perfMetrics, perfEval, optimizer, client>>

Init ==
    /\ CacheInit
    /\ QueueInit
    /\ PoolInit
    /\ PerfInit
    /\ OptInit
    /\ ClientInit
    /\ now = 0
    /\ lastCall = Call("constructor", "", NoRet, "", 0)

CacheSet == \E key \in Keys, value \in Values, ttl \in TTLArgs :
                Set(key, value, ttl)
CacheGet == \E key \in Keys : Get(key)
CacheDelete == \E key \in Keys : Delete(key)
CacheSweep == \E heapPressure \in BOOLEAN : PerformCleanup(heapPressure)

CacheTick == Tick /\ UNCHANGED cacheVars

\* the MemoryManager on its own
CacheNext ==
    \/ CacheSet /\ UNCHANGED <<queueVars, poolVars, perfVars, client>>
    \/ CacheGet /\ UNCHANGED <<queueVars, poolVars, perfVars, client>>
    \/ CacheDelete /\ UNCHANGED <<queueVars, poolVars, perfVars, client>>
    \/ Clear /\ UNCHANGED <<queueVars, poolVars, perfVars, client>>
    \/ CacheSweep /\ UNCHANGED <<queueVars, poolVars, perfVars, client>>
    \/ CacheTick /\ UNCHANGED <<queueVars, poolVars, perfVars, client>>

CacheSpec == Init /\ [][CacheNext]_vars

QueueAdd == \E priorityArg \in PriorityArgs, maxAttemptsArg \in MaxAttemptsArgs :
                AddCommand(priorityArg, maxAttemptsArg)
QueueCancel == \E commandId \in CmdIds : CancelCommand(commandId)
QueueSettle == \E b \in BatchIds, i \in 1..batchSize, outcome \in Outcomes :
                   Settle(b, i, outcome)
QueueProcess == \E throwing \in SUBSET CmdIds : ProcessingTimer(throwing)
QueueBatchGC == \E b \in BatchIds : BatchGC(b)
QueueTick ==
    /\ Tick
    /\ callbacks' = <<>>
    /\ UNCHANGED <<queue, processingQueue, batches, timers, totalCommands>>

\* the CommandQueueManager on its own
QueueNext ==
    \/ QueueAdd /\ UNCHANGED <<cacheVars, poolVars, perfVars, client>>
    \/ QueueCancel /\ UNCHANGED <<cacheVars, poolVars, perfVars, client>>
    \/ ClearQueue /\ UNCHANGED <<cacheVars, poolVars, perfVars, client>>
    \/ QueueCleanup /\ UNCHANGED <<cacheVars, poolVars, perfVars, client>>
    \/ BatchTimer /\ UNCHANGED <<cacheVars, poolVars, perfVars, client>>
    \/ QueueProcess /\ UNCHANGED <<cacheVars, poolVars, perfVars, client>>
    \/ QueueSettle /\ UNCHANGED <<cacheVars, poolVars, perfVars, client>>
    \/ QueueBatchGC /\ UNCHANGED <<cacheVars, poolVars, perfVars, client>>
    \/ QueueTick /\ UNCHANGED <<cacheVars, poolVars, perfVars, client>>

\* the cache stays as constructed, with LRU enabled
QueueInit0 == Init /\ config = [maxItems |-> 2, enableLRU |-> TRUE]

QueueSpec == QueueInit0 /\ [][QueueNext]_vars

\* sustained load at the highest priority
QueueAddCritical == \E maxAttemptsArg \in MaxAttemptsArgs :
                        AddCommand(CRITICAL, maxAttemptsArg)

\* the CommandQueueManager under that load, with nobody cancelling, clearing
\* or shutting down
QueueFairNext ==
    \/ QueueAddCritical /\ UNCHANGED <<cacheVars, poolVars, perfVars, client>>
    \/ BatchTimer /\ UNCHANGED <<cacheVars, poolVars, perfVars, client>>
    \/ QueueProcess /\ UNCHANGED <<cacheVars, poolVars, perfVars, client>>
    \/ QueueSettle /\ UNCHANGED <<cacheVars, poolVars, perfVars, client>>
    \/ QueueBatchGC /\ UNCHANGED <<cacheVars, poolVars, perfVars, client>>
    \/ QueueTick /\ UNCHANGED <<cacheVars, poolVars, perfVars, client>>

\* both intervals keep firing, every execution settles, the 30 s timeout of
\* a finished batch fires and time passes
QueueFairSpec ==
    /\ QueueInit0
    /\ [][QueueFairNext]_vars
    /\ WF_vars(BatchTimer /\ UNCHANGED <<cacheVars, poolVars, perfVars, client>>)
    /\ WF_vars(QueueProcess /\ UNCHANGED <<cacheVars, poolVars, perfVars, client>>)
    /\ WF_vars(QueueSettle /\ UNCHANGED <<cacheVars, poolVars, perfVars, client>>)
    /\ WF_vars(QueueBatchGC /\ UNCHANGED <<cacheVars, poolVars, perfVars, client>>)
    /\ WF_vars(QueueTick /\ UNCHANGED <<cacheVars, poolVars, perfVars, client>>)

\* the CommandQueueManager with room for one batch more than QueueSpec has,
\* at one instant: a batch can be formed while another is being processed
BatchInit0 ==
    /\ CacheInit /\ config = [maxItems |-> 2, enableLRU |-> TRUE]
    /\ queue = <<>>
    /\ processingQueue = {}
    /\ batches = [b \in 1..(MaxBatches + 1) |-> NoBatch]
    /\ timers = [processingInterval |-> TRUE, batchInterval |-> TRUE]
    /\ totalCommands = 0
    /\ callbacks = <<>>
    /\ PoolInit
    /\ PerfInit
    /\ OptInit
    /\ ClientInit
    /\ now = 0
    /\ lastCall = Call("constructor", "", NoRet, "", 0)

BatchNext ==
    \/ QueueAdd /\ UNCHANGED <<cacheVars, poolVars, perfVars, client>>
    \/ QueueCancel /\ UNCHANGED <<cacheVars, poolVars, perfVars, client>>
    \/ ClearQueue /\ UNCHANGED <<cacheVars, poolVars, perfVars, client>>
    \/ QueueCleanup /\ UNCHANGED <<cacheVars, poolVars, perfVars, client>>
    \/ BatchTimer /\ UNCHANGED <<cacheVars, poolVars, perfVars, client>>
    \/ QueueProcess /\ UNCHANGED <<cacheVars, poolVars, perfVars, client>>
    \/ QueueSettle /\ UNCHANGED <<cacheVars, poolVars, perfVars, client>>
    \/ QueueBatchGC /\ UNCHANGED <<cacheVars, poolVars, perfVars, client>>

BatchSpec == BatchInit0 /\ [][BatchNext]_vars

PoolGet == \E p \in Callers, op \in {"getConnection", "sendMessage"},
              throws \in BOOLEAN :
               /\ op = "getConnection" => ~throws
               /\ GetConnection(p, op, throws, ConnIds)
PoolOpen == \E c \in ConnIds, throws \in BOOLEAN : SocketOpen(c, throws)
PoolError == \E c \in ConnIds : SocketError(c)
PoolTimeout == \E c \in ConnIds : ConnectionTimeout(c)
PoolClose == \E c \in ConnIds : SocketClose(c)
PoolMessage == \E c \in ConnIds : SocketMessage(c, TRUE)
PoolTick == HealthCheckTick(MaxTime)

\* the ConnectionPoolManager on its own
PoolNext ==
    \/ PoolGet /\ UNCHANGED <<cacheVars, queueVars, perfVars, client>>
    \/ PoolOpen /\ UNCHANGED <<cacheVars, queueVars, perfVars, client>>
    \/ PoolError /\ UNCHANGED <<cacheVars, queueVars, perfVars, client>>
    \/ PoolTimeout /\ UNCHANGED <<cacheVars, queueVars, perfVars, client>>
    \/ PoolClose /\ UNCHANGED <<cacheVars, queueVars, perfVars, client>>
    \/ PoolMessage /\ UNCHANGED <<cacheVars, queueVars, perfVars, client>>
    \/ PoolTick /\ UNCHANGED <<cacheVars, queueVars, perfVars, client>>
    \/ PoolCleanup /\ UNCHANGED <<cacheVars, queueVars, perfVars, client>>

PoolSpec == QueueInit0 /\ [][PoolNext]_vars

\* the calls and the sockets of the long run
ProbeCallers == 1..MaxProbeCallers
ProbeConnIds == 1..MaxProbeSockets

ProbeGet == \E p \in ProbeCallers, op \in {"getConnection", "sendMessage"},
               throws \in BOOLEAN :
                /\ op = "getConnection" => ~throws
                /\ GetConnection(p, op, throws, ProbeConnIds)
ProbeTick == HealthCheckTick(MaxPoolTime)

\* the ConnectionPoolManager over enough health check intervals for a ping to
\* time out, with fewer calls at once
PoolProbeNext ==
    \/ ProbeGet /\ UNCHANGED <<cacheVars, queueVars, perfVars, client>>
    \/ PoolOpen /\ UNCHANGED <<cacheVars, queueVars, perfVars, client>>
    \/ PoolError /\ UNCHANGED <<cacheVars, queueVars, perfVars, client>>
    \/ PoolTimeout /\ UNCHANGED <<cacheVars, queueVars, perfVars, client>>
    \/ PoolClose /\ UNCHANGED <<cacheVars, queueVars, perfVars, client>>
    \/ PoolMessage /\ UNCHANGED <<cacheVars, queueVars, perfVars, client>>
    \/ ProbeTick /\ UNCHANGED <<cacheVars, queueVars, perfVars, client>>
    \/ PoolCleanup /\ UNCHANGED <<cacheVars, queueVars, perfVars, client>>

PoolProbeSpec == QueueInit0 /\ [][PoolProbeNext]_vars

\* the pool some time after its construction: every timestamp that has
\* reached 1 is older than pingTimeout
PoolFairInit0 ==
    /\ CacheInit /\ config = [maxItems |-> 2, enableLRU |-> TRUE]
    /\ QueueInit
    /\ PoolInit
    /\ PerfInit
    /\ OptInit
    /\ ClientInit
    /\ now = pingTimeout + 1
    /\ lastCall = Call("constructor", "", NoRet, "", 0)

\* the ConnectionPoolManager in use without end: calls, sockets that open,
\* close and deliver pongs, and the health check interval
PoolFairNext ==
    \/ ProbeGet /\ UNCHANGED <<cacheVars, queueVars, perfVars, client>>
    \/ PoolOpen /\ UNCHANGED <<cacheVars, queueVars, perfVars, client>>
    \/ PoolClose /\ UNCHANGED <<cacheVars, queueVars, perfVars, client>>
    \/ PoolMessage /\ UNCHANGED <<cacheVars, queueVars, perfVars, client>>
    \/ HealthCheckCycle /\ UNCHANGED <<cacheVars, queueVars, perfVars, client>>

\* the health check interval, armed by the constructor, keeps firing
PoolFairSpec ==
    /\ PoolFairInit0
    /\ [][PoolFairNext]_vars
    /\ WF_vars(HealthCheckCycle /\ UNCHANGED <<cacheVars, queueVars, perfVars, client>>)

othersVars == <<cacheVars, queueVars, poolVars, perfVars, now, lastCall>>

\* reconnectCount stays within MaxClientReconnects
FewReconnects == client'.reconnectCount <= MaxClientReconnects

\* the WebSocketClient on its own, for a few reconnects: too few for the
\* cooldown of scheduleReconnect
ClientNext ==
    \/ Connect /\ FewReconnects /\ UNCHANGED othersVars
    \/ Disconnect /\ FewReconnects /\ UNCHANGED othersVars
    \/ (\E s \in ClientSockets : SocketOpened(s))
          /\ FewReconnects /\ UNCHANGED othersVars
    \/ (\E s \in ClientSockets : SocketFailing(s))
          /\ FewReconnects /\ UNCHANGED othersVars
    \/ (\E s \in ClientSockets : SocketClosed(s))
          /\ FewReconnects /\ UNCHANGED othersVars
    \/ (\E s \in ClientSockets, type \in MessageTypes,
            cmd \in {0} \cup ClientCommands : ReceiveMessage(s, type, cmd))
          /\ FewReconnects /\ UNCHANGED othersVars
    \/ (\E i \in 1..MaxClientCommands : CommandDone(i))
          /\ FewReconnects /\ UNCHANGED othersVars
    \/ HealthCheckFires /\ FewReconnects /\ UNCHANGED othersVars
    \/ Elapse /\ FewReconnects /\ UNCHANGED othersVars
    \/ PingIntervalFires /\ FewReconnects /\ UNCHANGED othersVars
    \/ ReconnectFires /\ FewReconnects /\ UNCHANGED othersVars
    \/ ConnectTimeoutFires /\ FewReconnects /\ UNCHANGED othersVars
    \/ DelayedCloseFires /\ FewReconnects /\ UNCHANGED othersVars

ClientSpec == QueueInit0 /\ [][ClientNext]_vars

\* the WebSocketClient and its sockets alone, with no inbound message and
\* nobody calling disconnect(), for as many reconnects as it takes
ReconnectNext ==
    \/ Connect /\ UNCHANGED othersVars
    \/ (\E s \in ClientSockets : SocketOpened(s)) /\ UNCHANGED othersVars
    \/ (\E s \in ClientSockets : SocketFailing(s)) /\ UNCHANGED othersVars
    \/ (\E s \in ClientSockets : SocketClosed(s)) /\ UNCHANGED othersVars
    \/ HealthCheckFires /\ UNCHANGED othersVars
    \/ Elapse /\ UNCHANGED othersVars
    \/ ReconnectFires /\ UNCHANGED othersVars
    \/ CooldownFires /\ UNCHANGED othersVars
    \/ ConnectTimeoutFires /\ UNCHANGED othersVars
    \/ DelayedCloseFires /\ UNCHANGED othersVars

\* a pending timer fires, and a socket that is closing delivers its close
\* event
ReconnectFairSpec ==
    /\ QueueInit0
    /\ [][ReconnectNext]_vars
    /\ WF_vars(ReconnectFires /\ UNCHANGED othersVars)
    /\ WF_vars(CooldownFires /\ UNCHANGED othersVars)
    /\ WF_vars(DelayedCloseFires /\ UNCHANGED othersVars)
    /\ WF_vars((\E s \in ClientSockets : SocketClosed(s))
                   /\ UNCHANGED othersVars)

\* the messages of a server that runs the handshake and answers pings
HandshakeTypes == {"welcome", "auth_success", "pong"}

\* the WebSocketClient with such a server, no command and nobody calling
\* disconnect()
ClientFairNext ==
    \/ Connect /\ FewReconnects /\ UNCHANGED othersVars
    \/ (\E s \in ClientSockets : SocketOpened(s))
          /\ FewReconnects /\ UNCHANGED othersVars
    \/ (\E s \in ClientSockets : SocketFailing(s))
          /\ FewReconnects /\ UNCHANGED othersVars
    \/ (\E s \in ClientSockets : SocketClosed(s))
          /\ FewReconnects /\ UNCHANGED othersVars
    \/ (\E s \in ClientSockets, type \in HandshakeTypes :
            ReceiveMessage(s, type, 0))
          /\ FewReconnects /\ UNCHANGED othersVars
    \/ HealthCheckFires /\ FewReconnects /\ UNCHANGED othersVars
    \/ Elapse /\ FewReconnects /\ UNCHANGED othersVars
    \/ PingIntervalFires /\ FewReconnects /\ UNCHANGED othersVars
    \/ ReconnectFires /\ FewReconnects /\ UNCHANGED othersVars
    \/ ConnectTimeoutFires /\ FewReconnects /\ UNCHANGED othersVars
    \/ DelayedCloseFires /\ FewReconnects /\ UNCHANGED othersVars

\* an interval that is set keeps firing and a timer that is pending fires
ClientFairSpec ==
    /\ QueueInit0
    /\ [][ClientFairNext]_vars
    /\ WF_vars(HealthCheckFires /\ UNCHANGED othersVars)
    /\ WF_vars(PingIntervalFires /\ UNCHANGED othersVars)
    /\ WF_vars(DelayedCloseFires /\ UNCHANGED othersVars)

\* the PerformanceIntegrationManager on its own
PerfNext ==
    \/ (\E queueSize \in QueueSizes, memoryUtilization \in MemoryUtilizations :
            CollectMetrics(queueSize, memoryUtilization))
          /\ UNCHANGED <<cacheVars, queueVars, poolVars, optimizer, client>>
    \/ (\E newConfig \in [enableCommandQueuing : BOOLEAN,
                           enableMemoryOptimization : BOOLEAN] :
            UpdateConfig(newConfig))
          /\ UNCHANGED <<cacheVars, queueVars, poolVars, optimizer, client>>

\* the other components as constructed, the manager with any inputs
PerfInit0 ==
    /\ CacheInit /\ config = [maxItems |-> 2, enableLRU |-> TRUE]
    /\ QueueInit
    /\ PoolInit
    /\ PerfInputs
    /\ OptInit
    /\ ClientInit
    /\ now = 0
    /\ lastCall = Call("constructor", "", NoRet, "", 0)

PerfSpec == PerfInit0 /\ [][PerfNext]_vars

\* everything but the optimizer
restVars == <<cacheVars, queueVars, poolVars, perfConfig, perfMetrics,
              perfEval, client, now, lastCall>>

\* executeOptimizedCommand and the ResultCache on their own
OptNext ==
    \/ (\E p \in OptCallers, command \in OptCommands,
            useCache \in BOOLEAN, queueFull \in BOOLEAN :
            ExecuteOptimizedCommand(p, command, useCache, queueFull))
          /\ UNCHANGED restVars
    \/ (\E p \in OptCallers, success \in BOOLEAN :
            ExecutionSettles(p, success))
          /\ UNCHANGED restVars
    \/ (\E p \in OptCallers : ExecutionRejects(p)) /\ UNCHANGED restVars
    \/ (\E k \in OptKeys : ResultLeaves(k)) /\ UNCHANGED restVars

\* the other components as constructed, the manager with any two switches
OptInit0 ==
    /\ CacheInit /\ config = [maxItems |-> 2, enableLRU |-> TRUE]
    /\ QueueInit
    /\ PoolInit
    /\ PerfInit
    /\ OptInputs
    /\ ClientInit
    /\ now = 0
    /\ lastCall = Call("constructor", "", NoRet, "", 0)

OptSpec == OptInit0 /\ [][OptNext]_vars


\* ------------------------------------------------------------------------
\* Properties of the MemoryManager
\* ------------------------------------------------------------------------
RECURSIVE SumSizes(_)
SumSizes(items) ==
    IF items = <<>> THEN 0 ELSE Head(items).size + SumSizes(Tail(items))

LiveItems == SelectSeq(cache, LAMBDA it : ~Expired(it, now))

ItemSet(c) == {c[i] : i \in 1..Len(c)}

NoneExpired == \A it \in ItemSet(cache) : ~Expired(it, now)

\* C1: the memory_used value reported by getStats equals the sum of the
\* estimated sizes of the resident, non-expired items, in every state reached
\* by set / get / delete / clear.
C1_LedgerEqualsLiveSizes == getStats.memory_used = SumSizes(LiveItems)

\* C2: the number of resident items is at most maxItems and the sum of their
\* estimated sizes is at most maxSize, in every reachable state.
C2_CapsHold ==
    /\ Len(cache) <= config.maxItems
    /\ SumSizes(cache) <= maxSize

\* C3: get(key) on a resident item with now > createdAt + ttl deletes the
\* item, counts exactly one miss and no hit, and returns absent; get(key) on a
\* resident item with now <= createdAt + ttl returns its value; get never
\* returns a value otherwise.
C3_GetHonoursTTL ==
    [][\A key \in Keys : (lastCall'.op = "get" /\ Get(key)) =>
        IF HasKey(cache, key)
        THEN LET item == ItemOf(cache, key) IN
             IF now > item.createdAt + item.ttl
             THEN /\ lastCall'.ret = Absent
                  /\ ~HasKey(cache', key)
                  /\ metrics'.misses = metrics.misses + 1
                  /\ metrics'.hits = metrics.hits
             ELSE /\ lastCall'.ret = ValueRet(item.value)
                  /\ HasKey(cache', key)
        ELSE lastCall'.ret = Absent]_vars

\* a get has just found a resident item expired
C3_Witness ==
    /\ lastCall.op = "get"
    /\ lastCall.log = "Cache item expired"
    /\ lastCall.ret = Absent
    /\ metrics.misses = 1

\* the items resident before a step and gone after it
Removed == {it \in ItemSet(cache) : ~HasKey(cache', it.key)}

\* position of a key in the recency list (0 when it is not listed)
PositionOf(order, key) ==
    IF \E i \in 1..Len(order) : order[i] = key
    THEN CHOOSE i \in 1..Len(order) : order[i] = key
    ELSE 0

\* every item the step removed was listed in the recency list before every
\* surviving item other than the one under the key being set, and its last
\* access (set or successful get) was not later than that of any item
\* resident after the step
RemovedAreLeastRecent ==
    \A e \in Removed :
        /\ \A r \in ItemSet(cache') : e.lastAccessed <= r.lastAccessed
        /\ \A r \in ItemSet(cache) :
              (HasKey(cache', r.key) /\ r.key # lastCall'.key)
                 => /\ PositionOf(accessOrder, e.key) > 0
                    /\ PositionOf(accessOrder, e.key)
                          < PositionOf(accessOrder, r.key)

\* no item the step removed was inserted later than an item resident after
\* the step
RemovedAreOldestInserted ==
    \A e \in Removed : \A r \in ItemSet(cache') : e.createdAt <= r.createdAt

\* set of a new key on a cache filled to maxItems by sets alone, where
\* only the item cap is in the way: the first-inserted key goes and all
\* others stay
FirstInsertedGoesFirst ==
    LET key == lastCall'.key IN
    (/\ lastCall'.ret = BoolRet(TRUE)
     /\ ~HasKey(cache, key)
     /\ Len(cache) = config.maxItems
     /\ accessOrder = [i \in 1..Len(cache) |-> cache[i].key]
     /\ currentSize - cache[1].size + ItemOf(cache', key).size <= maxSize)
        => /\ ~HasKey(cache', cache[1].key)
           /\ \A i \in 2..Len(cache) : HasKey(cache', cache[i].key)

ByPriority(q) ==
    \A i, j \in 1..Len(q) : i < j => q[i].priority >= q[j].priority

\* the batches a step puts into the Map
CreatedBatchIds ==
    {b \in BatchIds : batches[b] = NoBatch /\ batches'[b] # NoBatch}

\* C5: after every step the queue is in non-increasing priority order, and
\* no command of a batch just extracted has a lower priority than a command
\* left in the queue.
C5_PriorityDispatchOrder ==
    [][/\ ByPriority(queue')
       /\ \A b \in CreatedBatchIds :
            \A i \in 1..Len(batches'[b].commands), j \in 1..Len(queue') :
                batches'[b].commands[i].priority >= queue'[j].priority]_vars

\* a batch of two commands in priority order, the CRITICAL one enqueued
\* after the other, extracted in front of a command it left behind
C5_Witness ==
    \E b \in PendingBatchIds :
        /\ Len(batches[b].commands) = 2
        /\ batches[b].commands[1].priority = CRITICAL
        /\ batches[b].commands[2].priority < CRITICAL
        /\ batches[b].commands[1].id > batches[b].commands[2].id
        /\ Len(queue) > 0
        /\ callbacks = <<>>
        /\ lastCall = NoCall

\* the position of command id in q, 0 when it is not there
QueueIndex(q, id) ==
    IF id \in IdsOf(q) THEN CHOOSE i \in 1..Len(q) : q[i].id = id ELSE 0

\* C6: a command accepted by addCommand stands behind every queued command
\* of the same or a higher priority and in front of every queued command of
\* strictly lower priority.
C6_FifoAmongEquals ==
    [][(lastCall'.op = "addCommand" /\ lastCall'.ret.kind = "id") =>
          LET at == QueueIndex(queue', lastCall'.ret.id) IN
          /\ at > 0
          /\ \A i \in 1..Len(queue') :
                /\ i < at => queue'[i].priority >= queue'[at].priority
                /\ i > at => queue'[i].priority < queue'[at].priority]_vars

\* C7: addCommand on a full queue fails with the capacity error and leaves
\* the queue, the batches and totalCommands as they were; the queue never
\* holds more than maxQueueSize commands.
C7_Backpressure ==
    [][/\ (lastCall'.op = "addCommand" /\ Len(queue) >= maxQueueSize) =>
            /\ lastCall'.ret =
                   ErrorRet("Queue is full, cannot add more commands")
            /\ queue' = queue
            /\ batches' = batches
            /\ totalCommands' = totalCommands
       /\ Len(queue') <= maxQueueSize]_vars

\* the third accepted command filled the queue and the fourth was rejected
C7_Witness ==
    /\ lastCall.op = "addCommand"
    /\ lastCall.ret.kind = "error"
    /\ Len(queue) = maxQueueSize
    /\ totalCommands = maxQueueSize

\* q is in (priority descending, enqueue time ascending) order
ByPriorityThenAge(q) ==
    \A i, j \in 1..Len(q) : i < j =>
        \/ q[i].priority > q[j].priority
        \/ q[i].priority = q[j].priority /\ q[i].addedAt <= q[j].addedAt

\* the commands a step leaves in the queue or extracts into a new batch
AfterCycle ==
    Range(queue') \cup
        UNION {Range(batches'[b].commands) : b \in CreatedBatchIds}

\* every queued command leaves the boost cycle one level higher when it has
\* waited longer than the threshold and is below CRITICAL, unchanged
\* otherwise
RaisedOneLevel ==
    \A i \in 1..Len(queue) :
        LET c == queue[i]
            level == IF now - c.addedAt > priorityBoostThreshold
                        /\ c.priority < CRITICAL
                     THEN c.priority + 1 ELSE c.priority
        IN  /\ level <= CRITICAL
            /\ [c EXCEPT !.priority = level] \in AfterCycle

\* C8: a boost cycle raises exactly the commands that waited longer than
\* the threshold, by one level and never above CRITICAL, and leaves the
\* queue in (priority descending, enqueue time ascending) order.
C8_Aging ==
    [][(lastCall'.op = "none" /\ BatchTimer) =>
          (RaisedOneLevel /\ ByPriorityThenAge(queue'))]_vars

\* command id waits in the queue at priority CRITICAL
QueuedCritical(id) ==
    \E i \in 1..Len(queue) :
        queue[i].id = id /\ queue[i].priority = CRITICAL

\* command id is in a batch whose processing has started
Dispatched(id) ==
    \E b \in LiveBatchIds :
        /\ batches[b].status \in {"processing", "completed"}
        /\ id \in IdsOf(batches[b].commands)

\* C9: with both timers firing and every execution settling, a queued
\* command is eventually dispatched although commands of the same priority
\* keep arriving; stated for the commands that wait at CRITICAL, the
\* priority no later command can exceed.
C9_NoStarvation ==
    \A id \in CmdIds : QueuedCritical(id) ~> Dispatched(id)

\* C10: when the processing of a batch ends, no command with attempts <
\* maxAttempts has had its error callback invoked for a failed execution.
C10_RetryBeforeError ==
    [][\A b \in BatchIds :
          (/\ batches[b] # NoBatch
           /\ batches[b].status # "completed"
           /\ batches'[b] # NoBatch
           /\ batches'[b].status = "completed") =>
              \A i \in 1..Len(batches[b].commands) :
                  LET c == batches[b].commands[i] IN
                  c.attempts < c.maxAttempts =>
                      \A k \in 1..Len(callbacks') :
                          ~(callbacks'[k].id = c.id
                            /\ callbacks'[k].name = "onError")]_vars

\* the callback reports an execution that failed: executeCommand resolved
\* with success = false, or executeQueuedCommand rejected
ReportsFailedExecution(cb) ==
    cb.arg \in {"fulfilled_failure", "onProgress threw"}

\* the commands held by the batches before the step
BatchedCommands ==
    UNION {Range(batches[b].commands) : b \in LiveBatchIds}

\* C11: when the scheduler reports the outcome of a failed execution, it does
\* so through the error callback and only after the command has been executed
\* maxAttempts times (attempts counts the executions before the current one).
C11_TerminalFailure ==
    [][\A k \in 1..Len(callbacks') :
          ReportsFailedExecution(callbacks'[k]) =>
              /\ callbacks'[k].name = "onError"
              /\ \A c \in BatchedCommands :
                    c.id = callbacks'[k].id => c.attempts + 1 >= c.maxAttempts]_vars

\* C12: an execution that resolved with success = false is never reported
\* through the success callback.
C12_ReturnedFailureIsFailure ==
    [][\A k \in 1..Len(callbacks') :
          callbacks'[k].arg = "fulfilled_failure" =>
              callbacks'[k].name # "onSuccess"]_vars

\* the batches of the Map that have not been handed to processBatch()
CancellableBatchIds ==
    {b \in BatchIds : /\ batches[b] # NoBatch
                      /\ batches[b].inMap
                      /\ batches[b].status = "pending"}

\* the command waits in the live queue or in a pending batch
Cancellable(id) ==
    \/ id \in IdsOf(queue)
    \/ \E b \in CancellableBatchIds : id \in IdsOf(batches[b].commands)

\* the step is the call cancelCommand(id)
CancelStep(id) ==
    /\ lastCall'.op = "cancelCommand"
    /\ lastCall'.key = ToString(id)

\* C13: cancelCommand(id) on a command of the live queue or of a pending batch
\* removes it from there (and nothing else), invokes its error callback with
\* the cancellation error, returns true and leaves the command in no
\* collection from which it could be dispatched; on any other id it returns
\* false, fires no callback and changes nothing.
C13_CancelContract ==
    [][\A id \in CmdIds : CancelStep(id) =>
          IF Cancellable(id)
          THEN /\ lastCall'.ret = BoolRet(TRUE)
               /\ callbacks' = <<Callback(id, "onError", "Command cancelled")>>
               /\ id \notin LiveIds'
               /\ id \notin processingQueue'
               /\ queue' = SelectSeq(queue, LAMBDA c : c.id # id)
               /\ \A b \in BatchIds :
                     IF batches[b] = NoBatch THEN batches'[b] = NoBatch
                     ELSE batches'[b] = [batches[b] EXCEPT !.commands =
                              SelectSeq(batches[b].commands,
                                        LAMBDA c : c.id # id)]
          ELSE /\ lastCall'.ret = BoolRet(FALSE)
               /\ callbacks' = <<>>
               /\ UNCHANGED <<queue, batches, processingQueue>>]_vars

\* a command has just been cancelled out of a pending batch that keeps another
\* command
C13_Witness ==
    /\ lastCall.op = "cancelCommand"
    /\ lastCall.ret = BoolRet(TRUE)
    /\ lastCall.log = "Command cancelled from batch"
    /\ \E b \in PendingBatchIds : Len(batches[b].commands) = 1

\* cancelCommand has just returned false for a command that is being executed
C13_WitnessProcessing ==
    /\ lastCall.op = "cancelCommand"
    /\ lastCall.ret = BoolRet(FALSE)
    /\ \E id \in processingQueue : lastCall.key = ToString(id)

\* the commands that were accepted and have not been handed to processBatch()
NotYetDispatched ==
    IdsOf(queue)
        \cup UNION {IdsOf(batches[b].commands) : b \in CancellableBatchIds}

\* C14: a cleanup() step invokes the error callback of every command that was
\* accepted but not yet dispatched, in the queue or in a pending batch, with
\* the shutdown error, and leaves the queue, the batch map and the in-flight
\* set empty.
C14_CleanupDrainsEverything ==
    [][lastCall'.op = "cleanup" =>
          /\ \A id \in NotYetDispatched :
                \E k \in 1..Len(callbacks') :
                    callbacks'[k] = Callback(id, "onError", "Queue shutdown")
          /\ queue' = <<>>
          /\ \A b \in BatchIds : batches'[b] = NoBatch \/ ~batches'[b].inMap
          /\ processingQueue' = {}]_vars

\* the timers the pool has armed and not cleared: the health check interval
\* and the connectionTimeout timeout of every socket still connecting
LivePoolTimers ==
    (IF healthCheckInterval THEN {"health-check"} ELSE {})
        \cup {"connection-timeout" : c \in
                  {d \in ConnIds : /\ connections[d] # NoConn
                                   /\ connections[d].ws = "CONNECTING"}}

\* C15: when cleanup() of the pool returns, none of the timers the pool armed
\* can still fire, and a cleanup() that directly follows a cleanup() changes
\* nothing.
C15_CleanupLeavesNoTimer ==
    [][lastCall'.op = "cleanup" =>
          /\ LivePoolTimers' = {}
          /\ lastCall.op = "cleanup" => UNCHANGED poolVars]_vars

\* C16: the active connection id, when set, names a connection of the Map
\* that is healthy and connected.
C16_ActiveIsHealthy ==
    activeConnection # 0 =>
        /\ activeConnection \in MapIds(connections)
        /\ connections[activeConnection].isHealthy
        /\ connections[activeConnection].status = "connected"

\* the sockets the pool has opened and that are connecting or open
LiveSockets ==
    {c \in ConnIds : /\ connections[c] # NoConn
                     /\ connections[c].ws \in {"CONNECTING", "OPEN"}}

\* C17: neither the number of connections in the Map nor the number of
\* sockets the pool has opened and not closed exceeds maxConnections.
C17_PoolSizeCap ==
    /\ Cardinality(MapIds(connections)) <= maxConnections
    /\ Cardinality(LiveSockets) <= maxConnections

\* the calls that are awaiting a connection they have started to create
Creating == {p \in Callers : calls[p] # Idle}

\* C19: at most one creation of a connection is in progress at any time.
C19_NoCreationStorm == Cardinality(Creating) <= 1

\* C20: no getConnection() or sendMessage() call ends with a rejected promise.
C20_FailureWithoutThrowing ==
    [][lastCall'.op \in {"getConnection", "sendMessage"} =>
          lastCall'.ret.kind # "rejected"]_vars

\* a ping sent to the connection has had no pong for longer than pingTimeout:
\* it left at a health check, exactly probeAt intervals after the start, and
\* a call takes place after the health check of its own interval
ProbeUnanswered(conn) ==
    /\ conn.probeAt > 0
    /\ DateNow - conn.probeAt >= pingTimeout

\* getConnection() has just returned connection c
Returned(c) ==
    /\ lastCall.op = "getConnection"
    /\ lastCall.ret = ConnRet(c)

C21_SendFailureHandling ==
    [][lastCall'.op = "sendMessage" =>
          /\ Len(sent') <= 1
          /\ sent' = <<>> => lastCall'.ret # BoolRet(TRUE)
          /\ \A c \in ConnIds :
                /\ sent' = <<[conn |-> c, ok |-> FALSE]>> =>
                      /\ lastCall'.ret = BoolRet(FALSE)
                      /\ ~connections'[c].isHealthy
                      /\ connections'[c].errors = connections[c].errors + 1
                      /\ activeConnection' # c
                /\ sent' = <<[conn |-> c, ok |-> TRUE]>> =>
                      /\ lastCall'.ret = BoolRet(TRUE)
                      /\ connections'[c].isHealthy
                      /\ connections'[c].status = "connected"
                      /\ connections'[c].errors = connections[c].errors
                      /\ activeConnection' = c]_vars

\* a send has just failed on the connection that was active
C21_Witness ==
    /\ lastCall.op = "sendMessage"
    /\ \E c \in ConnIds :
          /\ sent = <<[conn |-> c, ok |-> FALSE]>>
          /\ c \in MapIds(connections)
          /\ connections[c].errors = 1
    /\ activeConnection = 0

\* the connection's socket is not open or its status is not connected
NotConnected(conn) == conn.status # "connected" \/ conn.ws # "OPEN"

\* at time t the oldest ping that no pong has followed is at least
\* pingTimeout old
LivenessFailed(conn, t) ==
    /\ conn.probeAt > 0
    /\ t - conn.probeAt >= pingTimeout

\* C32: a health-check cycle removes exactly the connections whose socket is
\* not open or whose status is not connected, or that have had no pong for
\* the liveness threshold after a ping was sent; none is removed for liveness
\* before the threshold has elapsed since its unanswered ping; every other
\* connection is pinged and stays in the pool; and when the active
\* connection was removed the pool re-selects among the healthy connections
\* that remain.
C32_HealthCheckCycle ==
    [][(lastCall'.op = "tick" /\ healthCheckInterval) =>
          /\ \A c \in MapIds(connections) :
                 IF \/ NotConnected(connections[c])
                    \/ LivenessFailed(connections[c], DateNow')
                 THEN c \notin MapIds(connections')
                 ELSE /\ c \in MapIds(connections')
                      /\ connections'[c].pinged
          /\ (activeConnection \in MapIds(connections)
                                   \ MapIds(connections'))
                 => IF HealthyConnections(connections') = {}
                    THEN activeConnection' = 0
                    ELSE activeConnection'
                            \in HealthyConnections(connections')]_vars

\* C37: a connection marked unhealthy is never returned by getConnection()
\* again, and the health-check cycle eventually closes and removes it, so
\* that unhealthy connections do not occupy the slots of the pool for ever.
C37_UnhealthyAreRemoved ==
    /\ [][\A c \in ConnIds :
             (lastCall'.op = "getConnection" /\ lastCall'.ret = ConnRet(c))
                 => connections'[c].isHealthy]_vars
    /\ \A c \in ConnIds :
           (c \in MapIds(connections) /\ ~connections[c].isHealthy)
               ~> (c \notin MapIds(connections))

\* the value is a string whose UTF-16 length exceeds config.maxSize
OversizedString(value) ==
    /\ value.kind = "string"
    /\ value.len * 2 > maxSize

\* C30: set(key, value) with a value whose estimated size exceeds maxSize
\* returns false and leaves the cache, the recency list, the size ledger and
\* the counters as they were.
C30_OversizedSetRejected ==
    [][\A key \in Keys, value \in Values, ttl \in TTLArgs :
          (/\ lastCall'.op = "set"
           /\ OversizedString(value)
           /\ Set(key, value, ttl)) =>
              /\ lastCall'.ret = BoolRet(FALSE)
              /\ UNCHANGED <<cache, accessOrder, currentSize, metrics>>]_vars

\* an oversized set has just been rejected for a key that is resident, in a
\* cache that is full
C30_Witness ==
    /\ lastCall.op = "set"
    /\ lastCall.ret = BoolRet(FALSE)
    /\ HasKey(cache, lastCall.key)
    /\ Len(cache) = config.maxItems

\* C38: set on a resident key, with a value that keeps the sum of the item
\* sizes within maxSize, replaces the entry in place: the item count is
\* unchanged, no other resident key is evicted and the eviction counter is
\* not incremented, also when the cache holds maxItems items.
C38_ReplaceEvictsNothing ==
    [][\A key \in Keys, value \in Values, ttl \in TTLArgs :
          (/\ lastCall'.op = "set"
           /\ HasKey(cache, key)
           /\ SumSizes(cache) - ItemOf(cache, key).size + estimateSize(value)
                  <= maxSize
           /\ Set(key, value, ttl)) =>
              /\ Len(cache') = Len(cache)
              /\ Removed = {}
              /\ metrics'.evictions = metrics.evictions]_vars

\* C39: with LRU enabled, in every state reached by set / get / delete /
\* clear / sweep the recency list holds exactly the resident keys, each once,
\* ordered from least to most recently used.
C39_RecencyListConsistent ==
    config.enableLRU =>
        /\ {accessOrder[i] : i \in 1..Len(accessOrder)}
               = {cache[i].key : i \in 1..Len(cache)}
        /\ Len(accessOrder) = Len(cache)
        /\ \A i, j \in 1..Len(accessOrder) :
               i < j => ItemOf(cache, accessOrder[i]).lastAccessed
                           <= ItemOf(cache, accessOrder[j]).lastAccessed

\* with LRU enabled, a get has just moved the first-inserted of two resident
\* keys to the end of the recency list
C39_Witness ==
    /\ config.enableLRU
    /\ lastCall.op = "get"
    /\ Len(cache) = 2
    /\ accessOrder = <<cache[2].key, cache[1].key>>
    /\ cache[1].lastAccessed > cache[2].lastAccessed


\* ------------------------------------------------------------------------
\* Properties of the PerformanceIntegrationManager
\* ------------------------------------------------------------------------
\* C28: whatever the average command time, the cache hit rate, the queue
\* size and the memory utilization are, the health score computed by
\* evaluateSystemHealth lies in 0..100.
C28_ScoreInRange ==
    perfEval.evaluated => perfEval.healthScore \in 0..100

\* the score and the label of the reference function: all four deductions,
\* whatever the configuration
ReferenceScore(commandTime, hitRate, queueSize, memoryUtilization) ==
    100
    - (IF commandTime > 5000 THEN 30 ELSE IF commandTime > 2000 THEN 15 ELSE 0)
    - (IF hitRate < 20 THEN 20 ELSE IF hitRate < 50 THEN 10 ELSE 0)
    - (IF queueSize > 50 THEN 25 ELSE IF queueSize > 20 THEN 10 ELSE 0)
    - (IF memoryUtilization > 90 THEN 30
       ELSE IF memoryUtilization > 70 THEN 15 ELSE 0)

ReferenceLabel(score) ==
    CASE score >= 85 -> "excellent"
      [] score < 85 /\ score >= 70 -> "good"
      [] score < 70 /\ score >= 50 -> "fair"
      [] score < 50 -> "poor"

\* C29 as stated: after every metrics collection the stored systemHealth is
\* the reference label of the average command time, the cache hit rate, the
\* queue size and the memory utilization, and it is one of the four labels.
C29_LabelIsReference ==
    [][lastCall'.op = "collectMetrics" =>
          /\ perfMetrics'.systemHealth \in {"excellent", "good", "fair", "poor"}
          /\ perfMetrics'.systemHealth =
                 ReferenceLabel(ReferenceScore(perfMetrics'.averageCommandTime,
                                               perfMetrics'.cacheHitRate,
                                               perfEval'.queueSize,
                                               perfEval'.memoryUtilization))]_vars

\* C29 amended: after every metrics collection the stored systemHealth is
\* one of the four labels; it is the reference label of the inputs, where
\* the queue size counts as 0 when command queuing is switched off and the
\* memory utilization counts as 0 when memory optimization is switched off.
C29_LabelIsReferenceOfEnabled ==
    [][lastCall'.op = "collectMetrics" =>
          /\ perfMetrics'.systemHealth \in {"excellent", "good", "fair", "poor"}
          /\ perfMetrics'.systemHealth =
                 ReferenceLabel(ReferenceScore(
                     perfMetrics'.averageCommandTime,
                     perfMetrics'.cacheHitRate,
                     IF perfConfig.enableCommandQueuing
                     THEN perfEval'.queueSize ELSE 0,
                     IF perfConfig.enableMemoryOptimization
                     THEN perfEval'.memoryUtilization ELSE 0))]_vars

\* a collection with both switches on that read a queue of more than 20
\* commands and a memory utilization over 70 % and stored "fair"
C29_Witness ==
    /\ lastCall.op = "collectMetrics"
    /\ perfConfig.enableCommandQueuing
    /\ perfConfig.enableMemoryOptimization
    /\ perfEval.queueSize > 20
    /\ perfEval.memoryUtilization > 70
    /\ perfMetrics.systemHealth = "fair"


\* ------------------------------------------------------------------------
\* Properties of the WebSocketClient
\* ------------------------------------------------------------------------
\* C22: a command message starts an execution only on the current socket
\* after it has delivered welcome and auth_success; on a socket that has not
\* delivered welcome yet, a message of any other type runs no command,
\* starts no ping interval and sends nothing.
C22_StateGating ==
    [][client'.last.op = "onmessage" =>
          LET s == client'.last.sock
          IN /\ Len(client'.executing) > Len(client.executing) =>
                    /\ client.ws = s
                    /\ client.sockets[s].phase = "ready"
             /\ (client.sockets[s].phase = "new"
                 /\ client'.last.msg # "welcome") =>
                    /\ client'.executing = client.executing
                    /\ client'.pingInterval = client.pingInterval
                    /\ client'.out = <<>>]_vars


\* C23: once an auth_error message has been received, whatever timers,
\* socket events and sends follow, no reconnect is scheduled (neither the
\* reconnect timer nor the cooldown timer is set) and no new socket is
\* created.
C23_AuthFailureIsTerminal ==
    [][client.authFailed =>
          /\ client'.reconnectTimeout = 0
          /\ client'.cooldownTimer <= client.cooldownTimer
          /\ \A s \in ClientSockets :
                 client'.sockets[s].readyState = "CONNECTING" =>
                     client.sockets[s].readyState = "CONNECTING"]_vars


\* the client is connected on an open socket and the last ping it sent has
\* not been answered
SilentOpen ==
    /\ client.isConnected
    /\ client.ws # 0
    /\ client.sockets[client.ws].readyState = "OPEN"
    /\ client.pingAge # -1
    /\ ~client.ponged

\* C24: a connected client whose socket stays open and whose pings are not
\* answered any more is eventually disconnected by its health check: it
\* never stays for ever connected on an open socket with an unanswered ping.
C24_SilentDeathDetected == []<>(~SilentOpen)


\* the client is not connected or its socket is not open
NotSendable ==
    \/ ~client.isConnected
    \/ client.ws = 0
    \/ client.sockets[client.ws].readyState # "OPEN"

\* the connection flags, the timers and the reconnect scheduling of c
SessionState(c) ==
    <<c.ws, c.isConnected, c.manualDisconnect, c.reconnectTimeout,
      c.reconnectCount, c.cooldownTimer, c.pingInterval,
      c.connectionHealthCheckInterval, c.connectTimer, c.closeTimer>>

\* C25: when the client is not connected or its socket is not open, the
\* sends of a completed command (command_result, status "ready") and the
\* pong to a server ping return false, transmit nothing and leave the
\* connection flags, the timers and the reconnect scheduling as they were.
C25_SendOnClosedIsNoOp ==
    [][(/\ NotSendable
        /\ \/ client'.last.op = "executed"
           \/ client'.last.op = "onmessage" /\ client'.last.msg = "ping") =>
          /\ client'.ret = "false"
          /\ client'.out = <<>>
          /\ SessionState(client') = SessionState(client)]_vars


\* C27: inbound messages are handled one after the other: no message is
\* handled while a command received earlier is still executing, a command
\* that completes is the one received first, and the status "ready" is sent
\* only when no other command is executing.
C27_InOrderProcessing ==
    [][/\ client'.last.op = "onmessage" => client.executing = <<>>
       /\ client'.last.op = "executed" =>
              /\ client'.last.cmd = Head(client.executing)
              /\ (\E i \in 1..Len(client'.out) :
                      client'.out[i] = Frame("status", "ready", 0)) =>
                  client'.executing = <<>>]_vars


\* min(30000, 5000 * 1.5^(n-1)) ms for n = 1..10, in 1/512 ms:
\* 5000, 7500, 11250, 16875, 25312.5 and 30000 from the sixth on
BackoffTable ==
    <<2560000, 3840000, 5760000, 8640000, 12960000,
      15360000, 15360000, 15360000, 15360000, 15360000>>

\* a socket is created by the step
AttemptMade ==
    \E s \in ClientSockets :
        /\ client'.sockets[s].readyState = "CONNECTING"
        /\ client.sockets[s].readyState # "CONNECTING"

\* C26: the n-th reconnect scheduled in a row (n = reconnectCount, n <= 10)
\* is due after min(30000, 5000 * 1.5^(n-1)) ms, which is at most 30000 ms
\* and at least the delay of the (n-1)-th; the scheduling after the tenth
\* sets no reconnect timer but the 60 s cooldown, during which no socket is
\* created until the cooldown timer fires, and that sets the counter to 0
\* and makes an attempt; an open resets the counter to 0; and after a close
\* event with manualDisconnect false an attempt is eventually made.
C26_ReconnectPolicy ==
    /\ [][/\ (/\ client'.reconnectCount = client.reconnectCount + 1
              /\ client'.reconnectCount <= maxReconnectAttempts) =>
                 /\ client'.reconnectTimeout =
                        BackoffTable[client'.reconnectCount]
                 /\ client'.reconnectTimeout <= maxReconnectDelay * 512
                 /\ client'.reconnectCount > 1 =>
                        BackoffTable[client'.reconnectCount - 1]
                            <= client'.reconnectTimeout
                 /\ client'.cooldownTimer = client.cooldownTimer
          /\ (/\ client'.reconnectCount = client.reconnectCount + 1
              /\ client'.reconnectCount > maxReconnectAttempts) =>
                 /\ client'.reconnectTimeout = 0
                 /\ client'.cooldownTimer > 0
          /\ client.reconnectCount > maxReconnectAttempts =>
                 /\ client'.reconnectTimeout = 0
                 /\ AttemptMade => client'.last.op = "cooldown"
                 /\ client'.reconnectCount # client.reconnectCount =>
                        client'.reconnectCount = 0
          /\ client'.last.op = "cooldown" =>
                 /\ client'.reconnectCount = 0
                 /\ AttemptMade
          /\ client'.last.op = "onopen" => client'.reconnectCount = 0]_vars
    /\ (client.last.op = "onclose" /\ ~client.manualDisconnect)
           ~> (client.last.op \in {"reconnect", "cooldown"})

\* the attempt made when the cooldown after ten reconnects is over
C26_Witness ==
    /\ client.last.op = "cooldown"
    /\ client.reconnectCount = 0
    /\ client.ws # 0
    /\ client.sockets[client.ws].readyState = "CONNECTING"


\* C31: in every reachable state at most one batch of the scheduler has
\* status pending; a step forms a batch only when no batch was pending, the
\* new batch is pending, and the status of a batch only moves forward:
\* pending -> processing -> completed or failed.
StatusForward ==
    {<<"pending", "processing">>, <<"pending", "completed">>,
     <<"processing", "completed">>, <<"processing", "failed">>}

C31_SinglePendingBatch ==
    [][/\ Cardinality(PendingBatchIds) <= 1
       /\ Cardinality({b \in BatchIds : /\ batches'[b] # NoBatch
                                         /\ batches'[b].inMap
                                         /\ batches'[b].status = "pending"})
              <= 1
       /\ \A b \in CreatedBatchIds :
              PendingBatchIds = {} /\ batches'[b].status = "pending"
       /\ \A b \in BatchIds :
              batches[b] # NoBatch /\ batches'[b] # NoBatch
                  => \/ batches'[b].status = batches[b].status
                     \/ <<batches[b].status, batches'[b].status>>
                            \in StatusForward]_vars

\* a batch is pending while another is being processed and a command waits
\* in the queue, after a step of a timer
C31_Witness ==
    /\ Cardinality(PendingBatchIds) = 1
    /\ \E b \in MapBatchIds : batches[b].status = "processing"
    /\ Len(queue) > 0
    /\ lastCall = NoCall


\* C35: in every reachable state the number of commands executing at once,
\* the size of processingQueue, is at most maxConcurrentCommands.
C35_InFlightBound == Cardinality(processingQueue) <= maxConcurrentCommands


\* C36: under any interleaving of dispatch, cancelCommand and cleanup a
\* command gets at most one onSuccess / onError callback, once: a step invokes
\* such a callback only for a command the scheduler still holds (queued, or
\* in a batch that is pending or being processed), at most one per command,
\* and afterwards the scheduler no longer holds the command, so that no
\* later step can dispatch or notify it; and only the commands of a pending
\* batch of the Map are ever executed, so a command that was cancelled or
\* drained is not.
Held(q, bs, id) ==
    \/ id \in IdsOf(q)
    \/ \E b \in DOMAIN bs :
           /\ bs[b] # NoBatch
           /\ bs[b].status \in {"pending", "processing"}
           /\ id \in IdsOf(bs[b].commands)

TerminalCallbacks(cbs) ==
    {k \in 1..Len(cbs) : cbs[k].name \in {"onSuccess", "onError"}}

C33_TimeoutScopedToAttempt ==
    [][client'.last.op = "connectTimeout" =>
          IF client.connectTimer > 1
          THEN /\ client'.sockets = client.sockets
               /\ client'.isConnected = client.isConnected
          ELSE (/\ client.ws # 0
                /\ client.sockets[client.ws].readyState = "CONNECTING") =>
                   /\ client'.sockets[client.ws].readyState = "CLOSING"
                   /\ ~client'.isConnected]_vars


\* the reconnects that are pending: the reconnect timer and the cooldown
\* timers of scheduleReconnect
PendingReconnects(c) ==
    (IF c.reconnectTimeout # 0 THEN 1 ELSE 0) + c.cooldownTimer

\* the connection attempts in flight: the sockets that are connecting
AttemptsInFlight(c) ==
    {s \in ClientSockets : c.sockets[s].readyState = "CONNECTING"}

\* C34: in every reachable state at most one reconnect timer is armed,
\* the 60 s cooldown timer included, and at most one connection attempt is
\* in flight: scheduleReconnect called while a reconnect is pending arms no
\* further timer.
C34_SinglePendingReconnect ==
    /\ PendingReconnects(client) <= 1
    /\ Cardinality(AttemptsInFlight(client)) <= 1


\* C40: executeOptimizedCommand stores a result in the result cache only
\* when the execution succeeded (success = true), so that no value returned
\* from the cache is the result of a failed execution; and a call answered
\* from the cache neither enqueues nor executes its command.
C40_OnlySuccessesReused ==
    [][/\ \A k \in OptKeys :
              (/\ optimizer'.results[k] # optimizer.results[k]
               /\ optimizer'.results[k] # NoResult)
                  => optimizer'.results[k].success
       /\ (optimizer'.last # optimizer.last /\ optimizer'.last.cached) =>
              /\ optimizer'.last.result.success
              /\ optimizer'.calls = optimizer.calls]_vars

====
